---- MODULE Spec2Model ----
(***************************************************************************)
(* A model of WowTalentComparer: the talent export string parser          *)
(* (src/lib/talentParser.ts), the build diff (src/lib/talentDiff.ts), the  *)
(* overlap resolver (src/lib/nodeFiltering.ts), the component analysis of  *)
(* TalentTreeView with the generator of its topologies, the application    *)
(* state of App and BuildInput, and the useSpecData hook.                  *)
(*                                                                         *)
(* Text is modelled as a sequence of one-character strings.  Optional      *)
(* fields of a JavaScript object are modelled by the DOMAIN of a record: a *)
(* field that was never assigned is not in the DOMAIN.                     *)
(***************************************************************************)
EXTENDS Integers, Sequences, FiniteSets, TLC

VARIABLES
    input,        \* parseTalentString: the talentString argument
    pc,           \* parseTalentString: position in the function body
    bytes,        \* parseTalentString: the decoded buffer (bytes / rawBytes)
    bitPosition,  \* BitReader.bitPosition
    version,      \* parseTalentString: local version
    specId,       \* parseTalentString: local specId
    treeHash,     \* parseTalentString: local treeHash
    nodes,        \* parseTalentString: local nodes
    error,        \* the Error thrown by parseTalentString, or NoError
    result,       \* the ParsedTalentData returned, or NoResult
    rdData,       \* a BitReader on its own: BitReader.data
    rdPos,        \* a BitReader on its own: BitReader.bitPosition
    rdLast,       \* a BitReader on its own: the last readBits call
    buildA,       \* diffTalentBuilds: the buildA argument
    buildB,       \* diffTalentBuilds: the buildB argument
    diffOut,      \* diffTalentBuilds: what the call returned or threw
    diffSwapped,  \* what diffTalentBuilds(buildB, buildA) returned or threw
    dedupNodes,           \* deduplicateOverlappingNodes: the nodes argument
    selectedHeroNodeIds,  \* deduplicateOverlappingNodes: the second argument
    heroTreeNodeIds,      \* deduplicateOverlappingNodes: the third argument
    dedupOut,             \* deduplicateOverlappingNodes: what the call returned
    dedupTwice,           \* what a second call, on the nodes returned, returned
    treeNodeList,   \* fetchTalentData main: the nodes of the tree as read
    specData,       \* TalentTreeView: the specData prop (the topology)
    selectedNodes,  \* TalentTreeView: the selectedNodes prop
    analysis,       \* TalentTreeView: what the useMemo analysis computed
    buildValue,     \* CompareInput: buildAValue and buildBValue, by slot
    effectDue,      \* BuildInput: why the auto-load effect is due, by slot
    inputState,     \* BuildInput: specId, parsedNodes, error and
                    \*   lastLoadedValue.current, by slot
    appBuild,       \* App: buildA and buildB, by slot
    appString,      \* App: buildAString and buildBString, by slot
    view,           \* App: what the last render shows
    hookSpecId,     \* useSpecData: the specId argument of the last render
    hookPending,    \* useSpecData: the imports that have not settled
    hookState       \* useSpecData: data, loading and error

parserVars == <<input, pc, bytes, bitPosition, version, specId, treeHash,
                nodes, error, result>>
readerVars == <<rdData, rdPos, rdLast>>
diffVars   == <<buildA, buildB, diffOut, diffSwapped>>

dedupVars  == <<dedupNodes, selectedHeroNodeIds, heroTreeNodeIds, dedupOut,
                dedupTwice>>

analyzerVars == <<treeNodeList, specData, selectedNodes, analysis>>

uiVars == <<buildValue, effectDue, inputState, appBuild, appString, view>>

hookVars == <<hookSpecId, hookPending, hookState>>

vars == <<parserVars, readerVars, diffVars, dedupVars, analyzerVars, uiVars,
          hookVars>>

----------------------------------------------------------------------------
(* Bounds of the model *)

\* longest run of characters appended to a header prefix
MaxTail == 3

\* longest byte buffer a BitReader of its own is given
MaxBufLen == 4

----------------------------------------------------------------------------
(* Generic helpers *)

Rep(c, n) == [i \in 1..n |-> c]

\* the powers of two that fit a 32-bit signed integer, 2^0 .. 2^30
PowersOfTwo ==
    <<
      1, 2, 4, 8, 16, 32, 64, 128, 256, 512, 1024, 2048, 4096, 8192,
      16384, 32768, 65536, 131072, 262144, 524288, 1048576, 2097152,
      4194304, 8388608, 16777216, 33554432, 67108864, 134217728,
      268435456, 536870912, 1073741824
    >>

Pow2(n) == PowersOfTwo[n + 1]

\* bit i (0..30) of an integer x (JavaScript (x >> i) & 1)
BitOf(x, i) == (x \div Pow2(i)) % 2

\* JavaScript a | b on non-negative numbers below 2^width, width a power
\* of two: the OR of the low halves plus the OR of the high halves
RECURSIVE OrWidth(_, _, _)
OrWidth(a, b, width) ==
    IF a = 0 THEN b
    ELSE IF b = 0 THEN a
    ELSE IF width = 1 THEN 1
    ELSE LET half == width \div 2
         IN OrWidth(a % Pow2(half), b % Pow2(half), half)
            + Pow2(half) * OrWidth(a \div Pow2(half), b \div Pow2(half), half)

\* JavaScript a | b on non-negative numbers below 2^31
OrBits(a, b) == OrWidth(a, b, 32)

\* the smallest 32-bit signed integer, -2^31
MinInt32 == (-1073741824) * 2

\* the low 31 bits of a 32-bit signed integer
Low31(x) == IF x >= 0 THEN x ELSE x - MinInt32

\* JavaScript a | b on 32-bit signed integers
Or32(a, b) ==
    OrBits(Low31(a), Low31(b)) + (IF a < 0 \/ b < 0 THEN MinInt32 ELSE 0)

\* JavaScript bit << i for bit in {0, 1} and 0 <= i <= 31
Shl32(bit, i) ==
    IF i = 31 THEN (IF bit = 1 THEN MinInt32 ELSE 0) ELSE bit * Pow2(i)

----------------------------------------------------------------------------
(* talentParser.ts: BitReader *)

\* BitReader.readBits: the body of the for loop for one i, on the loop state
\* st = [result, pos, returned]; st.returned records that the loop has been
\* left by the early return
ReadBitsStep(data, st, i) ==
    IF st.returned THEN st
    ELSE LET byteIndex == st.pos \div 8
             bitIndex  == st.pos % 8
         IN IF byteIndex >= Len(data)
            THEN [st EXCEPT !.returned = TRUE]
            ELSE LET bit == BitOf(data[byteIndex + 1], bitIndex)
                 IN [st EXCEPT !.result = Or32(st.result, Shl32(bit, i)),
                               !.pos = st.pos + 1]

\* BitReader.readBits: the for loop over i = lo..hi, in order (the range is
\* split in two to keep the evaluation shallow)
RECURSIVE ReadBitsLoop(_, _, _, _)
ReadBitsLoop(data, lo, hi, st) ==
    IF lo > hi THEN st
    ELSE IF lo = hi THEN ReadBitsStep(data, st, lo)
    ELSE LET mid  == (lo + hi) \div 2
             left == ReadBitsLoop(data, lo, mid, st)
         IN IF left.returned THEN left
            ELSE ReadBitsLoop(data, mid + 1, hi, left)

\* BitReader.readBits: returns the result and the new bitPosition
readBits(data, pos, numBits) ==
    LET st == ReadBitsLoop(data, 0, numBits - 1,
                           [result |-> 0, pos |-> pos, returned |-> FALSE])
    IN [result |-> st.result, pos |-> st.pos]

\* BitReader.readBit
readBit(data, pos) ==
    LET r == readBits(data, pos, 1)
    IN [result |-> (r.result = 1), pos |-> r.pos]

\* BitReader.bitsRemaining
bitsRemaining(data, pos) == Len(data) * 8 - pos

----------------------------------------------------------------------------
(* talentParser.ts: decodeBase64 *)

alphabet ==
    <<"A","B","C","D","E","F","G","H","I","J","K","L","M",
      "N","O","P","Q","R","S","T","U","V","W","X","Y","Z",
      "a","b","c","d","e","f","g","h","i","j","k","l","m",
      "n","o","p","q","r","s","t","u","v","w","x","y","z",
      "0","1","2","3","4","5","6","7","8","9","+","/">>

AlphabetChars == {alphabet[i] : i \in 1..Len(alphabet)}

\* the reverse lookup table (defined exactly on the alphabet's characters)
lookup == [c \in AlphabetChars |->
              (CHOOSE i \in 1..Len(alphabet) : alphabet[i] = c) - 1]

\* the characters matched by the regular expression \s that the model uses
Whitespace == {" ", "\n", "\t"}

\* String.prototype.trim
RECURSIVE TrimLeft(_)
TrimLeft(s) ==
    IF s # <<>> /\ Head(s) \in Whitespace THEN TrimLeft(Tail(s)) ELSE s

RECURSIVE TrimRight(_)
TrimRight(s) ==
    IF s # <<>> /\ s[Len(s)] \in Whitespace
    THEN TrimRight(SubSeq(s, 1, Len(s) - 1)) ELSE s

trim(s) == TrimRight(TrimLeft(s))

IsNotWhitespace(c) == c \notin Whitespace

\* input.replace(/\s/g, '')
RemoveWhitespace(s) == SelectSeq(s, IsNotWhitespace)

\* the inner while loop of decodeBase64: moves whole bytes out of bitBuffer
RECURSIVE Drain(_, _)
Drain(st, outputLength) ==
    IF st.bitsInBuffer >= 8 /\ st.outputIndex < outputLength
    THEN Drain([st EXCEPT
                   !.bitBuffer    = st.bitBuffer \div 256,
                   !.bitsInBuffer = st.bitsInBuffer - 8,
                   !.outputIndex  = st.outputIndex + 1,
                   !.output       = [st.output EXCEPT ![st.outputIndex + 1] =
                                        st.bitBuffer % 256]],
               outputLength)
    ELSE st

\* Accumulate without the shift: bitBuffer |= value
Accumulate_NoShift(bitBuffer, value, bitsInBuffer) == OrBits(bitBuffer, value)

\* bitBuffer |= value << bitsInBuffer
Accumulate(bitBuffer, value, bitsInBuffer) ==
    OrBits(bitBuffer, value * Pow2(bitsInBuffer))

\* DecodeChar that skips a character outside the alphabet instead of throwing
DecodeChar_SkipInvalid(st, char, outputLength) ==
    IF char \notin DOMAIN lookup THEN st
    ELSE Drain([st EXCEPT
                   !.bitBuffer = OrBits(st.bitBuffer,
                                        lookup[char] * Pow2(st.bitsInBuffer)),
                   !.bitsInBuffer = st.bitsInBuffer + 6],
               outputLength)

\* the body of the for loop of decodeBase64 for one character; st.thrown
\* records that the loop has been left by the throw, with st.char the
\* character named in the message
DecodeChar(st, char, outputLength) ==
    IF st.thrown THEN st
    ELSE IF char \notin DOMAIN lookup
    THEN [st EXCEPT !.thrown = TRUE, !.char = char]
    ELSE Drain([st EXCEPT
                   !.bitBuffer = Accumulate(st.bitBuffer, lookup[char],
                                            st.bitsInBuffer),
                   !.bitsInBuffer = st.bitsInBuffer + 6],
               outputLength)

\* the for loop of decodeBase64 over the characters lo..hi, in order, from
\* the loop state st (the range is split in two to keep the evaluation
\* shallow; the characters are still handled first to last)
RECURSIVE DecodeLoop(_, _, _, _, _)
DecodeLoop(cleanInput, lo, hi, st, outputLength) ==
    IF lo > hi THEN st
    ELSE IF lo = hi THEN DecodeChar(st, cleanInput[lo], outputLength)
    ELSE LET mid  == (lo + hi) \div 2
             left == DecodeLoop(cleanInput, lo, mid, st, outputLength)
         IN IF left.thrown THEN left
            ELSE DecodeLoop(cleanInput, mid + 1, hi, left, outputLength)

decodeBase64(inp) ==
    LET cleanInput   == RemoveWhitespace(inp)
        outputLength == (Len(cleanInput) * 6) \div 8
        final == DecodeLoop(cleanInput, 1, Len(cleanInput),
                     [bitBuffer |-> 0, bitsInBuffer |-> 0, outputIndex |-> 0,
                      output |-> Rep(0, outputLength),
                      thrown |-> FALSE, char |-> ""],
                     outputLength)
    IN IF final.thrown THEN [ok |-> FALSE, char |-> final.char]
       ELSE [ok |-> TRUE, bytes |-> final.output]

----------------------------------------------------------------------------
(* talentParser.ts: parseTalentString *)

\* the entries of SPEC_NAMES, in source order
SpecNameEntries ==
    <<
      <<62, "Arcane Mage">>, <<63, "Fire Mage">>,
      <<64, "Frost Mage">>, <<65, "Holy Paladin">>,
      <<66, "Protection Paladin">>, <<70, "Retribution Paladin">>,
      <<71, "Arms Warrior">>, <<72, "Fury Warrior">>,
      <<73, "Protection Warrior">>, <<102, "Balance Druid">>,
      <<103, "Feral Druid">>, <<104, "Guardian Druid">>,
      <<105, "Restoration Druid">>, <<250, "Blood Death Knight">>,
      <<251, "Frost Death Knight">>, <<252, "Unholy Death Knight">>,
      <<253, "Beast Mastery Hunter">>, <<254, "Marksmanship Hunter">>,
      <<255, "Survival Hunter">>, <<256, "Discipline Priest">>,
      <<257, "Holy Priest">>, <<258, "Shadow Priest">>,
      <<259, "Assassination Rogue">>, <<260, "Outlaw Rogue">>,
      <<261, "Subtlety Rogue">>, <<262, "Elemental Shaman">>,
      <<263, "Enhancement Shaman">>, <<264, "Restoration Shaman">>,
      <<265, "Affliction Warlock">>, <<266, "Demonology Warlock">>,
      <<267, "Destruction Warlock">>, <<268, "Brewmaster Monk">>,
      <<270, "Mistweaver Monk">>, <<269, "Windwalker Monk">>,
      <<577, "Havoc Demon Hunter">>, <<581, "Vengeance Demon Hunter">>,
      <<1467, "Devastation Evoker">>, <<1468, "Preservation Evoker">>,
      <<1473, "Augmentation Evoker">>
    >>

\* SPEC_NAMES as a function from the known spec ids to their names
SPEC_NAMES ==
    [id \in {SpecNameEntries[i][1] : i \in 1..Len(SpecNameEntries)} |->
        SpecNameEntries[CHOOSE i \in 1..Len(SpecNameEntries) :
                            SpecNameEntries[i][1] = id][2]]

NoError  == [kind |-> "none"]
NoResult == [kind |-> "none"]

HexDigits == <<"0","1","2","3","4","5","6","7","8","9",
               "a","b","c","d","e","f">>

\* Number.prototype.toString(16) of a non-negative number
RECURSIVE toString16(_)
toString16(b) ==
    IF b < 16 THEN <<HexDigits[b + 1]>>
    ELSE Append(toString16(b \div 16), HexDigits[(b % 16) + 1])

\* String.prototype.padStart(targetLength, pad) with a one-character pad
padStart(s, targetLength, pad) ==
    IF Len(s) >= targetLength THEN s ELSE Rep(pad, targetLength - Len(s)) \o s

\* HashByteText without the padding: b => b.toString(16)
HashByteText_NoPad(b) == toString16(b)

\* b => b.toString(16).padStart(2, '0')
HashByteText(b) == padStart(toString16(b), 2, "0")

\* hashBytes.map(...).join(''), over the bytes lo..hi
RECURSIVE JoinHash(_, _, _)
JoinHash(hashBytes, lo, hi) ==
    IF lo > hi THEN <<>>
    ELSE IF lo = hi THEN HashByteText(hashBytes[lo])
    ELSE LET mid == (lo + hi) \div 2
         IN JoinHash(hashBytes, lo, mid) \o JoinHash(hashBytes, mid + 1, hi)

\* the loop that reads the hash bytes, for i = lo..hi in order, on the loop
\* state st = [i, hashBytes, pos] (st.i is the loop counter)
RECURSIVE ReadHashBytes(_, _, _, _)
ReadHashBytes(data, lo, hi, st) ==
    IF lo > hi THEN st
    ELSE IF lo = hi
    THEN LET r == readBits(data, st.pos, 8)
         IN [i |-> lo + 1, hashBytes |-> Append(st.hashBytes, r.result),
             pos |-> r.pos]
    ELSE LET mid  == (lo + hi) \div 2
             left == ReadHashBytes(data, lo, mid, st)
         IN IF left.i > mid THEN ReadHashBytes(data, mid + 1, hi, left)
            ELSE left

\* TooShort off by one: bytes.length <= 19
TooShort_OffByOne(data) == Len(data) <= 19

\* the length check of parseTalentString
TooShort(data) == Len(data) < 19

\* LoopCondition that also admits an exhausted buffer: bitsRemaining >= 0
LoopCondition_Exhausted(data, pos) == bitsRemaining(data, pos) >= 0

\* the condition of the node loop
LoopCondition(data, pos) == bitsRemaining(data, pos) >= 1

\* DecodePurchased that reads the choice index whether or not the node is a
\* choice node
DecodePurchased_ChoiceAlways(data, pos, node) ==
    LET pr  == readBit(data, pos)
        n1  == node @@ ("isPartiallyRanked" :> pr.result)
        rk  == IF pr.result THEN readBits(data, pr.pos, 6)
               ELSE [result |-> 0, pos |-> pr.pos]
        n2  == IF pr.result THEN n1 @@ ("ranksPurchased" :> rk.result) ELSE n1
        cn  == readBit(data, rk.pos)
        n3  == n2 @@ ("isChoiceNode" :> cn.result)
        ch  == readBits(data, cn.pos, 2)
    IN [node |-> n3 @@ ("choiceEntryIndex" :> ch.result), pos |-> ch.pos]

\* the reads made under "if (node.isPurchased)"
DecodePurchased(data, pos, node) ==
    LET pr  == readBit(data, pos)
        n1  == node @@ ("isPartiallyRanked" :> pr.result)
        rk  == IF pr.result THEN readBits(data, pr.pos, 6)
               ELSE [result |-> 0, pos |-> pr.pos]
        n2  == IF pr.result THEN n1 @@ ("ranksPurchased" :> rk.result) ELSE n1
        cn  == readBit(data, rk.pos)
        n3  == n2 @@ ("isChoiceNode" :> cn.result)
        ch  == IF cn.result THEN readBits(data, cn.pos, 2)
               ELSE [result |-> 0, pos |-> cn.pos]
        n4  == IF cn.result THEN n3 @@ ("choiceEntryIndex" :> ch.result) ELSE n3
    IN [node |-> n4, pos |-> ch.pos]

\* the body of the node loop: decodes one node at pos
DecodeNode(data, pos, nodeIndex) ==
    LET sel  == readBit(data, pos)
        node == [nodeIndex |-> nodeIndex, isSelected |-> sel.result]
    IN IF sel.result
       THEN LET pu == readBit(data, sel.pos)
                n1 == node @@ ("isPurchased" :> pu.result)
            IN IF pu.result THEN DecodePurchased(data, pu.pos, n1)
               ELSE [node |-> n1, pos |-> pu.pos]
       ELSE [node |-> node, pos |-> sel.pos]

\* lines 157-166: decode, keep the raw bytes, check the length
Decode ==
    /\ pc = "start"
    /\ LET d == decodeBase64(trim(input))
       IN IF ~d.ok
          THEN /\ error' = [kind |-> "InvalidCharacter", char |-> d.char]
               /\ pc' = "failed"
               /\ bytes' = bytes
          ELSE /\ bytes' = d.bytes
               /\ IF TooShort(d.bytes)
                  THEN /\ error' = [kind |-> "TooShort", got |-> Len(d.bytes)]
                       /\ pc' = "failed"
                  ELSE /\ error' = error
                       /\ pc' = "header"
    /\ UNCHANGED <<input, bitPosition, version, specId, treeHash, nodes, result>>

\* lines 168-182: the 152-bit header
ReadHeader ==
    /\ pc = "header"
    /\ LET v == readBits(bytes, bitPosition, 8)
           s == readBits(bytes, v.pos, 16)
           h == ReadHashBytes(bytes, 0, 15,
                              [i |-> 0, hashBytes |-> <<>>, pos |-> s.pos])
       IN /\ version' = v.result
          /\ specId' = s.result
          /\ treeHash' = JoinHash(h.hashBytes, 1, Len(h.hashBytes))
          /\ bitPosition' = h.pos
    /\ pc' = "nodes"
    /\ UNCHANGED <<input, bytes, nodes, error, result>>

\* lines 190-223: one iteration of the node loop
ParseNode ==
    /\ pc = "nodes"
    /\ LoopCondition(bytes, bitPosition)
    /\ LET d == DecodeNode(bytes, bitPosition, Len(nodes))
       IN /\ nodes' = Append(nodes, d.node)
          /\ bitPosition' = d.pos
    /\ UNCHANGED <<input, pc, bytes, version, specId, treeHash, error, result>>

\* lines 225-232: the loop has ended, the record is returned
Return ==
    /\ pc = "nodes"
    /\ ~LoopCondition(bytes, bitPosition)
    /\ result' = LET r == [kind |-> "record", version |-> version,
                           specId |-> specId, treeHash |-> treeHash,
                           nodes |-> nodes, rawBytes |-> bytes]
                 IN IF specId \in DOMAIN SPEC_NAMES
                    THEN r @@ ("specName" :> SPEC_NAMES[specId]) ELSE r
    /\ pc' = "done"
    /\ UNCHANGED <<input, bytes, bitPosition, version, specId, treeHash, nodes,
                   error>>

----------------------------------------------------------------------------
(* The export strings the parser is run on *)

\* the first 25 characters of the sample string of the parser's tests
\* (version 2, Marksmanship Hunter, an all-zero tree hash)
SamplePrefix == <<"C","4","P">> \o Rep("A", 22)

\* 25 characters with a two-byte specId (1467) and a varied tree hash
VariedPrefix ==
    <<"C","s","b","B","w","C","M","w","w","o","h","B","w","M","Y","D",
      "Y","G","z","M","z","Y","b","G","/">>

Prefixes ==
    { <<>>, SamplePrefix, VariedPrefix, <<" ", "\n">> \o SamplePrefix }

\* the characters a prefix is continued with: alphabet characters of several
\* bit patterns, a whitespace character and two characters outside the alphabet
TailChars == {"A", "/", "V", "M", "o", " ", "!", "@"}

RECURSIVE SeqsUpTo(_, _)
SeqsUpTo(S, n) ==
    IF n = 0 THEN { <<>> }
    ELSE LET shorter == SeqsUpTo(S, n - 1)
         IN shorter \cup { Append(t, c) : t \in shorter, c \in S }

Inputs == { p \o t : p \in Prefixes, t \in SeqsUpTo(TailChars, MaxTail) }

\* no BitReader of its own is in use
ReaderIdle == rdData = <<>> /\ rdPos = 0 /\ rdLast = [kind |-> "none"]

\* no diff is in progress
DiffIdle ==
    /\ buildA = [kind |-> "none"]
    /\ buildB = [kind |-> "none"]
    /\ diffOut = [kind |-> "none"]
    /\ diffSwapped = [kind |-> "none"]

\* deduplicateOverlappingNodes has not been called
DedupIdle ==
    /\ dedupNodes = <<>>
    /\ selectedHeroNodeIds = {}
    /\ heroTreeNodeIds = {}
    /\ dedupOut = [kind |-> "none"]
    /\ dedupTwice = [kind |-> "none"]

\* no topology has been generated and TalentTreeView has not rendered
AnalyzerIdle ==
    /\ treeNodeList = <<>>
    /\ specData = [kind |-> "none"]
    /\ selectedNodes = <<>>
    /\ analysis = [kind |-> "none"]

\* App is not mounted
UiIdle ==
    /\ buildValue = <<>>
    /\ effectDue = <<>>
    /\ inputState = <<>>
    /\ appBuild = <<>>
    /\ appString = <<>>
    /\ view = [kind |-> "none"]

\* no component uses useSpecData
HookIdle ==
    /\ hookSpecId = [kind |-> "none"]
    /\ hookPending = <<>>
    /\ hookState = [kind |-> "none"]

\* line 157: a caller passes an export string to parseTalentString
Call ==
    /\ pc = "idle"
    /\ input' \in Inputs
    /\ pc' = "start"
    /\ UNCHANGED <<bytes, bitPosition, version, specId, treeHash, nodes, error,
                   result>>

\* parseTalentString has not been called
ParserIdle ==
    /\ input = <<>>
    /\ pc = "idle"
    /\ bytes = <<>>
    /\ bitPosition = 0
    /\ version = 0
    /\ specId = 0
    /\ treeHash = <<>>
    /\ nodes = <<>>
    /\ error = NoError
    /\ result = NoResult

ParseInit == ParserIdle /\ ReaderIdle /\ DiffIdle /\ DedupIdle /\ AnalyzerIdle
    /\ UiIdle /\ HookIdle

ParseNext ==
    /\ Call \/ Decode \/ ReadHeader \/ ParseNode \/ Return
    /\ UNCHANGED <<readerVars, diffVars, dedupVars, analyzerVars, uiVars,
                   hookVars>>

ParseSpec == ParseInit /\ [][ParseNext]_vars

----------------------------------------------------------------------------
(* Properties of parseTalentString *)

Terminated == pc \in {"failed", "done"}

\* the characters of the input that are neither whitespace nor in the alphabet
IsInvalidChar(c) == c \notin Whitespace /\ c \notin AlphabetChars

HasInvalidChar(s) == \E i \in 1..Len(s) : IsInvalidChar(s[i])

FirstInvalidChar(s) ==
    s[CHOOSE i \in 1..Len(s) :
         /\ IsInvalidChar(s[i])
         /\ \A j \in 1..(i - 1) : ~IsInvalidChar(s[j])]

\* the alphabet characters of the input, in order
Symbols(s) == SelectSeq(s, LAMBDA c : c \in AlphabetChars)

\* floor(symbolCount * 6 / 8)
DecodedLength(s) == (Len(Symbols(s)) * 6) \div 8

\* bit p of the stream held by a byte buffer
StreamBit(data, p) == BitOf(data[(p \div 8) + 1], p % 8)

HAS(r, f) == f \in DOMAIN r

\* C1: when parse returns a record, its version is byte 0 of the decoded
\* buffer, its specId is byte 1 + 256 * byte 2, and its treeHash is the 32
\* lowercase hex digits of bytes 3..18, two per byte, in order.
C1_Header ==
    result.kind = "record" =>
        /\ result.rawBytes = bytes
        /\ Len(bytes) >= 19
        /\ result.version = bytes[1]
        /\ result.specId = bytes[2] + 256 * bytes[3]
        /\ Len(result.treeHash) = 32
        /\ \A k \in 0..15 :
              /\ result.treeHash[2 * k + 1] = HexDigits[(bytes[4 + k] \div 16) + 1]
              /\ result.treeHash[2 * k + 2] = HexDigits[(bytes[4 + k] % 16) + 1]

\* a record with a two-byte specId, a hash byte below 16 and one above 159
C1_Witness ==
    /\ result.kind = "record"
    /\ result.specId > 255
    /\ \E k \in 4..19 : bytes[k] \in 1..15
    /\ \E k \in 4..19 : bytes[k] >= 160

\* the optional fields of one node selection are present exactly on the
\* branch that reads them, and lie in the range of their bit width
NodeShape(n) ==
    /\ HAS(n, "isPurchased") <=> n.isSelected
    /\ HAS(n, "isPartiallyRanked") <=> (HAS(n, "isPurchased") /\ n.isPurchased)
    /\ HAS(n, "isChoiceNode") <=> (HAS(n, "isPurchased") /\ n.isPurchased)
    /\ HAS(n, "ranksPurchased") <=>
           (HAS(n, "isPartiallyRanked") /\ n.isPartiallyRanked)
    /\ HAS(n, "ranksPurchased") => n.ranksPurchased \in 0..63
    /\ HAS(n, "choiceEntryIndex") <=> (HAS(n, "isChoiceNode") /\ n.isChoiceNode)
    /\ HAS(n, "choiceEntryIndex") => n.choiceEntryIndex \in 0..3

\* C2: in every record parse returns, every node has isPurchased iff it is
\* selected, isPartiallyRanked and isChoiceNode iff it is purchased,
\* ranksPurchased (0..63) iff partially ranked, choiceEntryIndex (0..3) iff
\* it is a choice node.
C2_NodeShape ==
    result.kind = "record" =>
        \A i \in 1..Len(result.nodes) : NodeShape(result.nodes[i])

\* a record with an unselected node, a granted node and a node that carries
\* both a rank count and a choice index
C2_Witness ==
    /\ result.kind = "record"
    /\ \E i \in 1..Len(result.nodes) : ~result.nodes[i].isSelected
    /\ \E i \in 1..Len(result.nodes) :
          /\ HAS(result.nodes[i], "isPurchased")
          /\ ~result.nodes[i].isPurchased
    /\ \E i \in 1..Len(result.nodes) :
          /\ HAS(result.nodes[i], "ranksPurchased")
          /\ HAS(result.nodes[i], "choiceEntryIndex")
          /\ result.nodes[i].ranksPurchased > 0
          /\ result.nodes[i].choiceEntryIndex > 0

\* one iteration of the node loop has run
NodeLoopStep == pc = "nodes" /\ pc' = "nodes"

\* what holds of the node loop's state while it runs and after it
NodeLoopState ==
    pc \in {"nodes", "done"} =>
        /\ error = NoError
        /\ bitPosition >= 152
        /\ bitPosition <= 8 * Len(bytes)
        /\ \A i \in 1..Len(nodes) : nodes[i].nodeIndex = i - 1
        /\ Len(nodes) <= 8 * Len(bytes) - 152
        /\ pc = "done" => (result.kind = "record" /\ result.nodes = nodes)

\* C3: once the header check has passed, the node loop cannot fail and cannot
\* run forever: every iteration consumes at least one bit, leaves the cursor
\* within the buffer and appends exactly one node, and the loop is left only
\* by returning the record; so the nodes carry the indices 0..N-1 in order
\* and N is at most the number of bits after the 152-bit header.
C3_NodeLoop ==
    [][/\ NodeLoopState'
       /\ NodeLoopStep =>
            /\ bitPosition' > bitPosition
            /\ bitPosition' <= 8 * Len(bytes)
            /\ Len(nodes') = Len(nodes) + 1
            /\ SubSeq(nodes', 1, Len(nodes)) = nodes
       /\ pc = "nodes" => pc' \in {"nodes", "done"}
       /\ pc = "header" => pc' = "nodes"]_vars

\* a record whose node loop ran several times and stopped with the cursor
\* at the end of the buffer, the last node cut short by the end
C3_Witness ==
    /\ pc = "done"
    /\ Len(result.nodes) >= 3
    /\ bitPosition = 8 * Len(bytes)
    /\ result.nodes[Len(result.nodes)].isSelected

\* C4: parse fails with TooShort exactly when the input holds only alphabet
\* and whitespace characters and floor(symbolCount * 6 / 8) is below 19, and
\* then returns no record; with exactly 19 decoded bytes it returns a record
\* with zero nodes.
C4_TooShort ==
    Terminated =>
        /\ (error.kind = "TooShort") <=>
               (~HasInvalidChar(input) /\ DecodedLength(input) < 19)
        /\ error.kind = "TooShort" => result = NoResult /\ pc = "failed"
        /\ (~HasInvalidChar(input) /\ DecodedLength(input) = 19) =>
               /\ pc = "done"
               /\ result.kind = "record"
               /\ result.nodes = <<>>
               /\ Len(result.rawBytes) = 19

\* an input one byte short of the header: 25 symbols, 18 decoded bytes
C4_Witness ==
    /\ error.kind = "TooShort"
    /\ Len(bytes) = 18
    /\ Len(Symbols(input)) = 25

\* C5: parse of a string that holds a non-whitespace character outside the
\* alphabet fails with InvalidCharacter naming the first such character and
\* returns no record, however short the string is.
C5_InvalidCharacter ==
    (Terminated /\ HasInvalidChar(input)) =>
        /\ pc = "failed"
        /\ error = [kind |-> "InvalidCharacter",
                    char |-> FirstInvalidChar(input)]
        /\ result = NoResult

\* a short string with two different characters outside the alphabet
C5_Witness ==
    /\ error.kind = "InvalidCharacter"
    /\ Len(input) <= 3
    /\ \E i, j \in 1..Len(input) :
          /\ i < j
          /\ IsInvalidChar(input[i])
          /\ IsInvalidChar(input[j])
          /\ input[i] # input[j]

\* C6: decoding n valid symbols gives floor(6n/8) bytes whose bit k, counted
\* from the low bit of byte 0, is bit (k mod 6) of the value of symbol
\* floor(k/6); the bits left over are dropped.
C6_Decode ==
    (pc \notin {"idle", "start"} /\ ~HasInvalidChar(input)) =>
        LET syms == Symbols(input)
        IN /\ Len(bytes) = (6 * Len(syms)) \div 8
           /\ \A k \in 1..Len(bytes) : bytes[k] \in 0..255
           /\ \A k \in 0..(8 * Len(bytes) - 1) :
                 StreamBit(bytes, k) = BitOf(lookup[syms[(k \div 6) + 1]], k % 6)

\* 27 symbols: 162 bits, 20 bytes, the two bits left over are ones
C6_Witness ==
    /\ pc \notin {"idle", "start"}
    /\ ~HasInvalidChar(input)
    /\ Len(Symbols(input)) = 27
    /\ Len(bytes) = 20
    /\ lookup[Symbols(input)[27]] >= 48
    /\ \E k \in 1..Len(bytes) : bytes[k] \notin {0, 255}

\* the number of bits the encoding of a decoded node takes
NodeBits(n) ==
    1 + (IF n.isSelected
         THEN 1 + (IF n.isPurchased
                   THEN 2 + (IF n.isPartiallyRanked THEN 6 ELSE 0)
                          + (IF n.isChoiceNode THEN 2 ELSE 0)
                   ELSE 0)
         ELSE 0)

\* the number of bits the nodes lo..hi of a node list take
RECURSIVE NodeBitsSum(_, _, _)
NodeBitsSum(ns, lo, hi) ==
    IF lo > hi THEN 0
    ELSE IF lo = hi THEN NodeBits(ns[lo])
    ELSE LET mid == (lo + hi) \div 2
         IN NodeBitsSum(ns, lo, mid) + NodeBitsSum(ns, mid + 1, hi)

\* the stream position where node j (from 1) of a node list starts
NodeStart(ns, j) == 152 + NodeBitsSum(ns, 1, j - 1)

\* decoding node j needed a bit beyond the end of the buffer
NeedsBitPastEnd(ns, j) == NodeStart(ns, j) + NodeBits(ns[j]) > 8 * Len(bytes)

\* C8: a node whose decoding needs a bit beyond the end of the decoded buffer
\* has isSelected = false.
C8_PastEndUnselected ==
    pc \in {"nodes", "done"} =>
        \A j \in 1..Len(nodes) :
            NeedsBitPastEnd(nodes, j) => ~nodes[j].isSelected

----------------------------------------------------------------------------
(* A BitReader on its own: readBits called with every width on small buffers *)

\* byte values of two complementary bit patterns: 0x5A, 0xA5
ReaderBytes == {90, 165}

ReaderBuffers == SeqsUpTo(ReaderBytes, MaxBufLen)

\* the widths readBits is called with
ReadWidths == 1..32

\* new BitReader(data)
ReaderInit ==
    /\ rdData \in ReaderBuffers
    /\ rdPos = 0
    /\ rdLast = [kind |-> "none"]
    /\ ParserIdle
    /\ DiffIdle
    /\ DedupIdle
    /\ AnalyzerIdle
    /\ UiIdle
    /\ HookIdle

\* reader.readBits(numBits)
ReadBitsCall(numBits) ==
    /\ LET r == readBits(rdData, rdPos, numBits)
       IN /\ rdPos' = r.pos
          /\ rdLast' = [kind |-> "read", numBits |-> numBits, start |-> rdPos,
                        result |-> r.result]
    /\ UNCHANGED <<rdData, parserVars, diffVars, dedupVars, analyzerVars,
                   uiVars, hookVars>>

ReaderNext == \E numBits \in ReadWidths : ReadBitsCall(numBits)

ReaderSpec == ReaderInit /\ [][ReaderNext]_vars

\* the i-th bit a readBits(numBits) call at position start has to deliver:
\* the stream bit at start + i, or 0 beyond the width or the buffer
ExpectedBit(data, start, numBits, i) ==
    IF i < numBits /\ start + i < 8 * Len(data)
    THEN StreamBit(data, start + i) ELSE 0

\* the sum of ExpectedBit(i) * 2^(i - base) for i = lo..hi
RECURSIVE ExpectedValue(_, _, _, _, _, _)
ExpectedValue(data, start, numBits, base, lo, hi) ==
    IF lo > hi THEN 0
    ELSE ExpectedBit(data, start, numBits, lo) * Pow2(lo - base)
         + ExpectedValue(data, start, numBits, base, lo + 1, hi)

----------------------------------------------------------------------------
(* talentDiff.ts: diffTalentBuilds and getChangeDetails *)

\* the largest number of node indices a build of the diff model speaks about
MaxNodes == 2

\* a JavaScript null
null == [kind |-> "null"]

\* an optional boolean field used as a condition: absent counts as false
Truthy(r, f) == HAS(r, f) /\ r[f]

\* an effective rank that falls back to 0 whatever isPartiallyRanked is
effectiveRank_ZeroDefault(node) ==
    IF HAS(node, "ranksPurchased") THEN node.ranksPurchased ELSE 0

\* lines 144-145: ranksPurchased ?? (isPartiallyRanked ? 1 : 0)
effectiveRank(node) ==
    IF HAS(node, "ranksPurchased") THEN node.ranksPurchased
    ELSE IF Truthy(node, "isPartiallyRanked") THEN 1 ELSE 0

\* lines 155-156: choiceEntryIndex ?? 0
effectiveChoice(node) ==
    IF HAS(node, "choiceEntryIndex") THEN node.choiceEntryIndex ELSE 0

\* change details that record the ranks without testing that they differ
getChangeDetails_NoRankTest(nodeA, nodeB) ==
    IF Truthy(nodeA, "isPartiallyRanked") \/ Truthy(nodeB, "isPartiallyRanked")
    THEN [rankChange |-> [from |-> effectiveRank(nodeA),
                          to |-> effectiveRank(nodeB)]]
    ELSE null

\* lines 135-165: the change details of two selected nodes, or null
getChangeDetails(nodeA, nodeB) ==
    LET effectiveRankA == effectiveRank(nodeA)
        effectiveRankB == effectiveRank(nodeB)
        rankChanged ==
            /\ Truthy(nodeA, "isPartiallyRanked")
                  \/ Truthy(nodeB, "isPartiallyRanked")
            /\ effectiveRankA # effectiveRankB
        rankChange == [from |-> effectiveRankA, to |-> effectiveRankB]
        choiceA == effectiveChoice(nodeA)
        choiceB == effectiveChoice(nodeB)
        choiceChanged ==
            /\ Truthy(nodeA, "isChoiceNode") \/ Truthy(nodeB, "isChoiceNode")
            /\ choiceA # choiceB
        choiceChange == [from |-> choiceA, to |-> choiceB]
    IN IF rankChanged /\ choiceChanged
       THEN [rankChange |-> rankChange, choiceChange |-> choiceChange]
       ELSE IF rankChanged THEN [rankChange |-> rankChange]
       ELSE IF choiceChanged THEN [choiceChange |-> choiceChange]
       ELSE null

\* ${build.specName || build.specId}: the name unless it is absent or empty,
\* else the specId in decimal
NameOrId(build) ==
    IF HAS(build, "specName") /\ build.specName # ""
    THEN build.specName ELSE ToString(build.specId)

\* the message that reports only buildA
MismatchMessage_OnlyA(a, b) ==
    <<"Cannot compare different specs: ", NameOrId(a), " vs ", NameOrId(a)>>

\* line 41: the text of the Error, as the pieces of the template literal
MismatchMessage(a, b) ==
    <<"Cannot compare different specs: ", NameOrId(a), " vs ", NameOrId(b)>>

\* lines 46-54: a Map filled by set(node.nodeIndex, node) in list order, a
\* later node replacing an earlier one of the same index
NodeMap(ns) ==
    [i \in {ns[k].nodeIndex : k \in 1..Len(ns)} |->
        ns[CHOOSE k \in 1..Len(ns) :
               /\ ns[k].nodeIndex = i
               /\ \A m \in (k + 1)..Len(ns) : ns[m].nodeIndex # i]]

\* the indices of A's nodes only
AllIndices_OnlyA(nsA, nsB) == [k \in 1..Len(nsA) |-> nsA[k].nodeIndex]

\* lines 57-60: the Set of the indices of A's then B's nodes, in the order
\* of first insertion, as the sequence the loop iterates over
AllIndices(nsA, nsB) ==
    LET cat == [k \in 1..(Len(nsA) + Len(nsB)) |->
                   IF k <= Len(nsA) THEN nsA[k].nodeIndex
                   ELSE nsB[k - Len(nsA)].nodeIndex]
        IsFirst(k) == \A m \in 1..(k - 1) : cat[m] # cat[k]
        firsts == {k \in 1..Len(cat) : IsFirst(k)}
    IN [j \in 1..Cardinality(firsts) |->
           cat[CHOOSE k \in firsts :
                   Cardinality({m \in firsts : m < k}) = j - 1]]

\* a lookup that counts every listed node as selected
Selected_Listed(nodeMap, nodeIndex) == nodeIndex \in DOMAIN nodeMap

\* lines 73-74: node?.isSelected ?? false
Selected(nodeMap, nodeIndex) ==
    IF nodeIndex \in DOMAIN nodeMap THEN nodeMap[nodeIndex].isSelected
    ELSE FALSE

\* lines 70-115: the body of the loop over allIndices; acc holds diffs and
\* the three summary arrays
DiffStep(acc, nodeIndex, nodesA, nodesB) ==
    LET selectedA == Selected(nodesA, nodeIndex)
        selectedB == Selected(nodesB, nodeIndex)
    IN IF selectedB /\ ~selectedA
       THEN [acc EXCEPT
               !.diffs = Append(@, [nodeIndex |-> nodeIndex,
                                    diffType |-> "added",
                                    buildB |-> nodesB[nodeIndex]]),
               !.added = Append(@, nodeIndex)]
       ELSE IF selectedA /\ ~selectedB
       THEN [acc EXCEPT
               !.diffs = Append(@, [nodeIndex |-> nodeIndex,
                                    diffType |-> "removed",
                                    buildA |-> nodesA[nodeIndex]]),
               !.removed = Append(@, nodeIndex)]
       ELSE IF selectedA /\ selectedB
       THEN LET changeDetails ==
                    getChangeDetails(nodesA[nodeIndex], nodesB[nodeIndex])
            IN IF changeDetails # null
               THEN [acc EXCEPT
                       !.diffs = Append(@, [nodeIndex |-> nodeIndex,
                                            diffType |-> "changed",
                                            buildA |-> nodesA[nodeIndex],
                                            buildB |-> nodesB[nodeIndex],
                                            changeDetails |-> changeDetails]),
                       !.changed = Append(@, nodeIndex)]
               ELSE [acc EXCEPT
                       !.diffs = Append(@, [nodeIndex |-> nodeIndex,
                                            diffType |-> "unchanged",
                                            buildA |-> nodesA[nodeIndex],
                                            buildB |-> nodesB[nodeIndex]])]
       ELSE acc

\* a loop that handles the first index only
DiffLoop_FirstOnly(acc, allIndices, k, nodesA, nodesB) ==
    IF Len(allIndices) = 0 THEN acc
    ELSE DiffStep(acc, allIndices[1], nodesA, nodesB)

\* lines 62-116: the loop over allIndices, from its k-th element on
RECURSIVE DiffLoop(_, _, _, _, _)
DiffLoop(acc, allIndices, k, nodesA, nodesB) ==
    IF k > Len(allIndices) THEN acc
    ELSE DiffLoop(DiffStep(acc, allIndices[k], nodesA, nodesB),
                  allIndices, k + 1, nodesA, nodesB)

\* inserts x into the ascending sequence s
Insert(x, s) ==
    LET k == Cardinality({j \in 1..Len(s) : s[j] <= x})
    IN SubSeq(s, 1, k) \o <<x>> \o SubSeq(s, k + 1, Len(s))

\* a sort that leaves the array as it is
SortAsc_Unsorted(s) == s

\* lines 119-121: sort((a, b) => a - b)
RECURSIVE SortAsc(_)
SortAsc(s) == IF s = <<>> THEN <<>> ELSE Insert(Head(s), SortAsc(Tail(s)))

\* lines 34-129: what diffTalentBuilds(a, b) returns or throws
diffTalentBuilds(a, b) ==
    IF a.specId # b.specId
    THEN [kind |-> "thrown", message |-> MismatchMessage(a, b)]
    ELSE LET out == DiffLoop([diffs |-> <<>>, added |-> <<>>,
                              removed |-> <<>>, changed |-> <<>>],
                             AllIndices(a.nodes, b.nodes), 1,
                             NodeMap(a.nodes), NodeMap(b.nodes))
             r == [kind |-> "result", specId |-> a.specId,
                   diffs |-> out.diffs,
                   summary |-> [added |-> SortAsc(out.added),
                                removed |-> SortAsc(out.removed),
                                changed |-> SortAsc(out.changed)]]
         IN IF HAS(a, "specName") THEN r @@ ("specName" :> a.specName)
            ELSE r

----------------------------------------------------------------------------
(* The builds diffTalentBuilds is called on *)

\* the node indices of the builds
NodeIndices == 0..(MaxNodes - 1)

\* the selections the parser produces for one node
ParsedSelections(i) ==
    LET base == [nodeIndex |-> i, isSelected |-> TRUE, isPurchased |-> TRUE]
    IN { [nodeIndex |-> i, isSelected |-> FALSE],
         [nodeIndex |-> i, isSelected |-> TRUE, isPurchased |-> FALSE],
         base @@ [isPartiallyRanked |-> FALSE, isChoiceNode |-> FALSE],
         base @@ [isPartiallyRanked |-> TRUE, ranksPurchased |-> 0,
                  isChoiceNode |-> FALSE],
         base @@ [isPartiallyRanked |-> TRUE, ranksPurchased |-> 2,
                  isChoiceNode |-> FALSE],
         base @@ [isPartiallyRanked |-> FALSE, isChoiceNode |-> TRUE,
                  choiceEntryIndex |-> 0],
         base @@ [isPartiallyRanked |-> FALSE, isChoiceNode |-> TRUE,
                  choiceEntryIndex |-> 1],
         base @@ [isPartiallyRanked |-> TRUE, ranksPurchased |-> 2,
                  isChoiceNode |-> TRUE, choiceEntryIndex |-> 1] }

\* selections written by hand as createNode of talentDiff.test.ts does, with
\* fields left out
HandSelections(i) ==
    LET base == [nodeIndex |-> i, isSelected |-> TRUE, isPurchased |-> TRUE]
    IN { base, base @@ [isPartiallyRanked |-> TRUE] }

\* node 0 takes every selection, node 1 an unselected, a granted and a
\* partially ranked one, the further nodes an unselected and a granted one
Selections(i) ==
    IF i = 0 THEN ParsedSelections(i) \cup HandSelections(i)
    ELSE { [nodeIndex |-> i, isSelected |-> FALSE],
           [nodeIndex |-> i, isSelected |-> TRUE, isPurchased |-> FALSE] }
         \cup
         IF i = 1
         THEN { [nodeIndex |-> i, isSelected |-> TRUE, isPurchased |-> TRUE,
                 isPartiallyRanked |-> TRUE, ranksPurchased |-> 2,
                 isChoiceNode |-> FALSE] }
         ELSE {}

\* the orders in which node indices appear in a list: each index at most
\* once, ascending as the parser lists them or descending
IndexOrders ==
    { o \in SeqsUpTo(NodeIndices, MaxNodes) :
        \/ \A k \in 1..(Len(o) - 1) : o[k] < o[k + 1]
        \/ \A k \in 1..(Len(o) - 1) : o[k] > o[k + 1] }

\* the node lists over one order of indices
RECURSIVE NodeListsOf(_)
NodeListsOf(o) ==
    IF o = <<>> THEN { <<>> }
    ELSE { <<n>> \o r : n \in Selections(Head(o)), r \in NodeListsOf(Tail(o)) }

NodeLists == UNION { NodeListsOf(o) : o \in IndexOrders }

\* the node lists of builds whose specs are varied: at most node 0,
\* unselected or granted
FewNodeLists ==
    { <<>>,
      <<[nodeIndex |-> 0, isSelected |-> FALSE]>>,
      <<[nodeIndex |-> 0, isSelected |-> TRUE, isPurchased |-> FALSE]>> }

\* createBuild of talentDiff.test.ts without a specName
createBuild(id, ns) ==
    [kind |-> "record", version |-> 2, specId |-> id,
     treeHash |-> <<"t","e","s","t","-","h","a","s","h">>,
     nodes |-> ns, rawBytes |-> <<>>]

\* the specs of the builds: two named ones, one of a known id without its
\* name, one of an id SPEC_NAMES does not hold, one with an empty name
SpecParts ==
    { [specId |-> 254, specName |-> "Marksmanship Hunter"],
      [specId |-> 253, specName |-> "Beast Mastery Hunter"],
      [specId |-> 254],
      [specId |-> 9999],
      [specId |-> 253, specName |-> ""] }

MakeBuild(part, ns) ==
    IF HAS(part, "specName")
    THEN createBuild(part.specId, ns) @@ ("specName" :> part.specName)
    ELSE createBuild(part.specId, ns)

\* the pairs of builds: every pair of node lists under one spec, and every
\* pair of specs over few nodes
DiffInputs ==
    { <<MakeBuild([specId |-> 254, specName |-> "Marksmanship Hunter"], x),
        MakeBuild([specId |-> 254, specName |-> "Marksmanship Hunter"], y)>> :
          x \in NodeLists, y \in NodeLists }
    \cup
    { <<MakeBuild(p, x), MakeBuild(q, y)>> :
          p \in SpecParts, q \in SpecParts,
          x \in FewNodeLists, y \in FewNodeLists }

\* a caller passes two builds to diffTalentBuilds
CallDiff ==
    /\ buildA.kind = "none"
    /\ \E p \in DiffInputs : buildA' = p[1] /\ buildB' = p[2]
    /\ UNCHANGED <<diffOut, diffSwapped>>

\* lines 34-129: the call returns or throws
Diff ==
    /\ buildA.kind = "record"
    /\ diffOut.kind = "none"
    /\ diffOut' = diffTalentBuilds(buildA, buildB)
    /\ UNCHANGED <<buildA, buildB, diffSwapped>>

\* lines 34-129: the same two builds with the roles swapped, as after
\* CompareInput's swap: diffTalentBuilds(buildB, buildA) returns or throws
DiffSwapped ==
    /\ diffOut.kind # "none"
    /\ diffSwapped.kind = "none"
    /\ diffSwapped' = diffTalentBuilds(buildB, buildA)
    /\ UNCHANGED <<buildA, buildB, diffOut>>

DiffInit == ParserIdle /\ ReaderIdle /\ DiffIdle /\ DedupIdle /\ AnalyzerIdle
    /\ UiIdle /\ HookIdle

DiffNext ==
    /\ CallDiff \/ Diff \/ DiffSwapped
    /\ UNCHANGED <<parserVars, readerVars, dedupVars, analyzerVars, uiVars,
                   hookVars>>

DiffSpec == DiffInit /\ [][DiffNext]_vars

----------------------------------------------------------------------------
(* Properties of diffTalentBuilds *)

\* the elements of a sequence
Range(s) == {s[k] : k \in 1..Len(s)}

\* C9: diffTalentBuilds throws exactly when the two specIds differ; it then
\* returns no result, and the message holds, for each build, its display
\* name, or its specId in decimal when the build has no name
C9_SpecMismatch ==
    diffOut.kind # "none" =>
        /\ diffOut.kind \in {"thrown", "result"}
        /\ diffOut.kind = "thrown" <=> buildA.specId # buildB.specId
        /\ diffOut.kind = "thrown" =>
              /\ Len(diffOut.message) = 4
              /\ diffOut.message[1] = "Cannot compare different specs: "
              /\ ~HAS(diffOut, "diffs")
              /\ \A k \in {1, 2} :
                    LET b == IF k = 1 THEN buildA ELSE buildB
                        shown == diffOut.message[2 * k]
                    IN /\ HAS(b, "specName") /\ b.specName # ""
                            => shown = b.specName
                       /\ ~HAS(b, "specName") => shown = ToString(b.specId)

\* a named build was compared with an unnamed build of another spec
C9_Witness ==
    /\ diffOut.kind = "thrown"
    /\ HAS(buildA, "specName") /\ buildA.specName = "Marksmanship Hunter"
    /\ ~HAS(buildB, "specName")
    /\ buildB.specId = 9999

\* whether build b selects node index i; an index b does not list is not
\* selected
SelectedIn(b, i) ==
    \E k \in 1..Len(b.nodes) : b.nodes[k].nodeIndex = i /\ b.nodes[k].isSelected

\* the selection build b lists for node index i
SelectionOf(b, i) ==
    b.nodes[CHOOSE k \in 1..Len(b.nodes) : b.nodes[k].nodeIndex = i]

\* the entries of the diff list for node index i
EntriesOf(i) == {d \in Range(diffOut.diffs) : d.nodeIndex = i}

\* C10: an index is tagged added iff B selects it and A does not, its entry
\* carrying only B's selection; it is tagged removed iff A selects it and B
\* does not, its entry carrying only A's selection; an index a build does not
\* list counts as not selected in that build
C10_AddedRemoved ==
    diffOut.kind = "result" =>
        \A i \in NodeIndices :
            /\ (\E d \in EntriesOf(i) : d.diffType = "added")
                   <=> (SelectedIn(buildB, i) /\ ~SelectedIn(buildA, i))
            /\ (\E d \in EntriesOf(i) : d.diffType = "removed")
                   <=> (SelectedIn(buildA, i) /\ ~SelectedIn(buildB, i))
            /\ \A d \in EntriesOf(i) :
                  /\ d.diffType = "added" =>
                        /\ ~HAS(d, "buildA")
                        /\ HAS(d, "buildB")
                        /\ d.buildB = SelectionOf(buildB, i)
                  /\ d.diffType = "removed" =>
                        /\ ~HAS(d, "buildB")
                        /\ HAS(d, "buildA")
                        /\ d.buildA = SelectionOf(buildA, i)

\* builds of different node counts: an index only B lists was added and an
\* index A selects and B lists unselected was removed
C10_Witness ==
    /\ diffOut.kind = "result"
    /\ Len(buildA.nodes) # Len(buildB.nodes)
    /\ \E i, j \in NodeIndices :
          /\ \A k \in 1..Len(buildA.nodes) : buildA.nodes[k].nodeIndex # i
          /\ \E d \in EntriesOf(i) : d.diffType = "added"
          /\ \E d \in EntriesOf(j) : d.diffType = "removed"

\* C11: an index selected in both builds is tagged changed iff a rank
\* comparison or a choice comparison differs: ranks are compared when a side
\* has isPartiallyRanked true, as ranksPurchased if present, else 1 if
\* isPartiallyRanked, else 0; choices are compared when a side has
\* isChoiceNode true, as choiceEntryIndex if present, else 0.  changeDetails
\* then holds rankChange and/or choiceChange {from: A's, to: B's} for exactly
\* the comparisons that differ; otherwise the index is tagged unchanged and
\* has no changeDetails
C11_Changed ==
    diffOut.kind = "result" =>
        \A i \in NodeIndices :
            SelectedIn(buildA, i) /\ SelectedIn(buildB, i) =>
                LET a == SelectionOf(buildA, i)
                    b == SelectionOf(buildB, i)
                    Flag(n, f) == f \in DOMAIN n /\ n[f]
                    Rank(n) == IF "ranksPurchased" \in DOMAIN n
                               THEN n.ranksPurchased
                               ELSE IF Flag(n, "isPartiallyRanked") THEN 1
                               ELSE 0
                    Choice(n) == IF "choiceEntryIndex" \in DOMAIN n
                                 THEN n.choiceEntryIndex ELSE 0
                    rankDiffers ==
                        /\ Flag(a, "isPartiallyRanked")
                              \/ Flag(b, "isPartiallyRanked")
                        /\ Rank(a) # Rank(b)
                    choiceDiffers ==
                        /\ Flag(a, "isChoiceNode") \/ Flag(b, "isChoiceNode")
                        /\ Choice(a) # Choice(b)
                IN /\ EntriesOf(i) # {}
                   /\ \A d \in EntriesOf(i) :
                         IF rankDiffers \/ choiceDiffers
                         THEN /\ d.diffType = "changed"
                              /\ HAS(d, "changeDetails")
                              /\ HAS(d.changeDetails, "rankChange")
                                    <=> rankDiffers
                              /\ HAS(d.changeDetails, "choiceChange")
                                    <=> choiceDiffers
                              /\ rankDiffers =>
                                    d.changeDetails.rankChange =
                                        [from |-> Rank(a), to |-> Rank(b)]
                              /\ choiceDiffers =>
                                    d.changeDetails.choiceChange =
                                        [from |-> Choice(a), to |-> Choice(b)]
                         ELSE /\ d.diffType = "unchanged"
                              /\ ~HAS(d, "changeDetails")

\* a node whose rank and choice both differ was tagged changed, next to a
\* node selected in both builds that was tagged unchanged
C11_Witness ==
    /\ diffOut.kind = "result"
    /\ \E d \in Range(diffOut.diffs) :
          /\ d.diffType = "changed"
          /\ HAS(d.changeDetails, "rankChange")
          /\ HAS(d.changeDetails, "choiceChange")
    /\ \E d \in Range(diffOut.diffs) : d.diffType = "unchanged"

\* the positions of the diff list that hold an entry for node index i
PositionsOf(i) == {k \in 1..Len(diffOut.diffs) : diffOut.diffs[k].nodeIndex = i}

\* the node indices of the diff entries tagged t
Tagged(t) == {d.nodeIndex : d \in {e \in Range(diffOut.diffs) : e.diffType = t}}

\* whether sequence s lists exactly the elements of S, each once
ListsExactly(s, S) == Range(s) = S /\ Len(s) = Cardinality(S)

\* C12: the diff list holds exactly one entry for each index selected in at
\* least one build and none for an index selected in neither; the three
\* summary arrays hold exactly the indices of the entries tagged added,
\* removed and changed, so an unchanged index is in no summary array
C12_DiffList ==
    diffOut.kind = "result" =>
        /\ \A k \in 1..Len(diffOut.diffs) :
              diffOut.diffs[k].nodeIndex \in NodeIndices
        /\ \A i \in NodeIndices :
              Cardinality(PositionsOf(i)) =
                  IF SelectedIn(buildA, i) \/ SelectedIn(buildB, i)
                  THEN 1 ELSE 0
        /\ ListsExactly(diffOut.summary.added, Tagged("added"))
        /\ ListsExactly(diffOut.summary.removed, Tagged("removed"))
        /\ ListsExactly(diffOut.summary.changed, Tagged("changed"))
        /\ \A i \in Tagged("unchanged") :
              /\ i \notin Range(diffOut.summary.added)
              /\ i \notin Range(diffOut.summary.removed)
              /\ i \notin Range(diffOut.summary.changed)

\* a diff whose only entry is unchanged: B also lists, unselected, an index
\* that A does not list, and the three summary arrays are empty
C12_Witness ==
    /\ diffOut.kind = "result"
    /\ Tagged("unchanged") # {}
    /\ Len(diffOut.diffs) = 1
    /\ Len(buildA.nodes) = 1
    /\ Len(buildB.nodes) = 2
    /\ diffOut.summary = [added |-> <<>>, removed |-> <<>>, changed |-> <<>>]

\* C13: diffTalentBuilds(B, B) has empty added, removed and changed summary
\* arrays, and every entry of its diff list is tagged unchanged
C13_SelfDiff ==
    diffOut.kind # "none" /\ buildA = buildB =>
        /\ diffOut.kind = "result"
        /\ diffOut.summary.added = <<>>
        /\ diffOut.summary.removed = <<>>
        /\ diffOut.summary.changed = <<>>
        /\ \A d \in Range(diffOut.diffs) : d.diffType = "unchanged"

\* a build with a partially ranked choice node, a second selected node and
\* nodes out of ascending order was compared with itself
C13_Witness ==
    /\ diffOut.kind = "result"
    /\ buildA = buildB
    /\ Len(diffOut.diffs) = 2
    /\ buildA.nodes[1].nodeIndex > buildA.nodes[2].nodeIndex
    /\ \E k \in 1..2 :
          /\ Truthy(buildA.nodes[k], "isPartiallyRanked")
          /\ Truthy(buildA.nodes[k], "isChoiceNode")

\* C14: for builds of equal specId, summary.added of diffTalentBuilds(A, B)
\* equals summary.removed of diffTalentBuilds(B, A) and summary.removed of
\* the first equals summary.added of the second, as sets
C14_Antisymmetry ==
    diffSwapped.kind # "none" /\ buildA.specId = buildB.specId =>
        /\ diffOut.kind = "result"
        /\ diffSwapped.kind = "result"
        /\ Range(diffOut.summary.added) = Range(diffSwapped.summary.removed)
        /\ Range(diffOut.summary.removed) = Range(diffSwapped.summary.added)

\* both directions were computed for two builds where one index was added
\* and another removed
C14_Witness ==
    /\ diffSwapped.kind = "result"
    /\ diffOut.summary.added # <<>>
    /\ diffOut.summary.removed # <<>>
    /\ diffSwapped.summary.added # <<>>

\* whether the numbers of sequence s ascend
Ascending(s) == \A j, k \in 1..Len(s) : j < k => s[j] < s[k]

\* C15: the three summary arrays are sorted in ascending nodeIndex order,
\* whatever the order of the nodes in the two node lists
C15_SummarySorted ==
    diffOut.kind = "result" =>
        /\ Ascending(diffOut.summary.added)
        /\ Ascending(diffOut.summary.removed)
        /\ Ascending(diffOut.summary.changed)

\* A lists its nodes in descending order and two of them were removed
C15_Witness ==
    /\ diffOut.kind = "result"
    /\ Len(diffOut.summary.removed) >= 2
    /\ Len(buildA.nodes) >= 2
    /\ buildA.nodes[1].nodeIndex > buildA.nodes[2].nodeIndex

\* whether field f is absent from one of the two selections and present
\* with value 0 in the other
AbsentAndZero(a, b, f) ==
    \/ ~HAS(a, f) /\ HAS(b, f) /\ b[f] = 0
    \/ ~HAS(b, f) /\ HAS(a, f) /\ a[f] = 0

\* C16: absence and zero are distinct for diffing: when a node selected in
\* both builds has ranksPurchased (or choiceEntryIndex) absent in one build
\* and present with value 0 in the other, the diff does not treat the two
\* values as equal, that is, it reports a rankChange (or a choiceChange)
C16_AbsentIsNotZero ==
    diffOut.kind = "result" =>
        \A i \in NodeIndices :
            SelectedIn(buildA, i) /\ SelectedIn(buildB, i) =>
                LET a == SelectionOf(buildA, i)
                    b == SelectionOf(buildB, i)
                IN \A d \in EntriesOf(i) :
                      /\ AbsentAndZero(a, b, "ranksPurchased") =>
                            /\ HAS(d, "changeDetails")
                            /\ HAS(d.changeDetails, "rankChange")
                      /\ AbsentAndZero(a, b, "choiceEntryIndex") =>
                            /\ HAS(d, "changeDetails")
                            /\ HAS(d.changeDetails, "choiceChange")

----------------------------------------------------------------------------
(* nodeFiltering.ts: deduplicateOverlappingNodes *)

\* the largest number of nodes in a list given to deduplicateOverlappingNodes
MaxDedupNodes == 3

\* a key made of posX alone
positionKey_OnlyX(node) == <<ToString(node.posX)>>

\* line 26: the Map key `${node.posX},${node.posY}`, as the pieces of the
\* template literal
positionKey(node) == <<ToString(node.posX), ",", ToString(node.posY)>>

\* lines 24-30: the keys of nodesByPosition in the order of first insertion
PositionKeys(ns) ==
    LET firsts == {k \in 1..Len(ns) :
                      \A m \in 1..(k - 1) :
                          positionKey(ns[m]) # positionKey(ns[k])}
    IN [j \in 1..Cardinality(firsts) |->
           positionKey(ns[CHOOSE k \in firsts :
                              Cardinality({m \in firsts : m < k}) = j - 1])]

\* lines 27-29: the array stored under key, the nodes pushed in input order
NodesAtPos(ns, key) == SelectSeq(ns, LAMBDA n : positionKey(n) = key)

\* a find that returns the first node whatever it is
FindSelected_First(nodesAtPos, selected) == nodesAtPos[1]

\* line 53: nodesAtPos.find(n => selectedHeroNodeIds.has(n.id)), the first
\* such node
FindSelected(nodesAtPos, selected) ==
    nodesAtPos[CHOOSE k \in 1..Len(nodesAtPos) :
                   /\ nodesAtPos[k].id \in selected
                   /\ \A m \in 1..(k - 1) : nodesAtPos[m].id \notin selected]

\* a position that deduplicates without looking at heroTreeNodeIds
KeptAtPos_NoMixedCheck(nodesAtPos, selected, heroIds) ==
    IF \E k \in 1..Len(nodesAtPos) : nodesAtPos[k].id \in selected
    THEN <<FindSelected(nodesAtPos, selected)>>
    ELSE <<nodesAtPos[1]>>

\* a position whose fallback is the last node
KeptAtPos_LastFallback(nodesAtPos, selected, heroIds) ==
    IF ~(\A k \in 1..Len(nodesAtPos) : nodesAtPos[k].id \in heroIds)
    THEN nodesAtPos
    ELSE IF \E k \in 1..Len(nodesAtPos) : nodesAtPos[k].id \in selected
    THEN <<FindSelected(nodesAtPos, selected)>>
    ELSE <<nodesAtPos[Len(nodesAtPos)]>>

\* lines 36-59: what one position pushes to result
KeptAtPos(nodesAtPos, selected, heroIds) ==
    IF Len(nodesAtPos) = 1 THEN <<nodesAtPos[1]>>
    ELSE IF ~(\A k \in 1..Len(nodesAtPos) : nodesAtPos[k].id \in heroIds)
    THEN nodesAtPos
    ELSE IF \E k \in 1..Len(nodesAtPos) : nodesAtPos[k].id \in selected
    THEN <<FindSelected(nodesAtPos, selected)>>
    ELSE <<nodesAtPos[1]>>

\* a loop that puts what it keeps in front of the result
RECURSIVE DedupLoop_Prepend(_, _, _, _, _, _)
DedupLoop_Prepend(res, keys, k, ns, selected, heroIds) ==
    IF k > Len(keys) THEN res
    ELSE DedupLoop_Prepend(
             KeptAtPos(NodesAtPos(ns, keys[k]), selected, heroIds) \o res,
             keys, k + 1, ns, selected, heroIds)

\* lines 33-60: the loop over nodesByPosition.values(), from the k-th key on
RECURSIVE DedupLoop(_, _, _, _, _, _)
DedupLoop(res, keys, k, ns, selected, heroIds) ==
    IF k > Len(keys) THEN res
    ELSE DedupLoop(res \o KeptAtPos(NodesAtPos(ns, keys[k]), selected, heroIds),
                   keys, k + 1, ns, selected, heroIds)

\* lines 18-63: what deduplicateOverlappingNodes returns
deduplicateOverlappingNodes(ns, selected, heroIds) ==
    DedupLoop(<<>>, PositionKeys(ns), 1, ns, selected, heroIds)

----------------------------------------------------------------------------
(* The node lists deduplicateOverlappingNodes is called on *)

\* the node ids
DedupIds == 1..MaxDedupNodes

\* the positions nodes are placed at: two share posX, two share posY
Positions == { <<100, 100>>, <<100, 200>>, <<200, 200>> }

\* createNode of the nodeFiltering tests, with a type that depends on the id
createNode(id, posX, posY) ==
    [id |-> id, posX |-> posX, posY |-> posY, type |-> (id % 2) * 2,
     maxRanks |-> 1,
     entries |-> << [id |-> id * 100, definitionId |-> id * 100,
                     spellId |-> id * 1000,
                     name |-> <<"Spell ", ToString(id)>>,
                     iconId |-> 0, maxRanks |-> 1, entryIndex |-> 0] >>]

\* the orders in which node ids appear in a list: each id at most once,
\* ascending or descending
IdOrders ==
    { o \in SeqsUpTo(DedupIds, MaxDedupNodes) :
        \/ \A k \in 1..(Len(o) - 1) : o[k] < o[k + 1]
        \/ \A k \in 1..(Len(o) - 1) : o[k] > o[k + 1] }

\* the node lists over one order of ids, every node at every position
RECURSIVE DedupListsOf(_)
DedupListsOf(o) ==
    IF o = <<>> THEN { <<>> }
    ELSE { <<createNode(Head(o), p[1], p[2])>> \o r :
               p \in Positions, r \in DedupListsOf(Tail(o)) }

DedupNodeLists == UNION { DedupListsOf(o) : o \in IdOrders }

\* a caller passes a node list and two id sets
CallDedup ==
    /\ dedupOut.kind = "none"
    /\ dedupNodes = <<>>
    /\ dedupNodes' \in DedupNodeLists \ { <<>> }
    /\ selectedHeroNodeIds' \in SUBSET DedupIds
    /\ heroTreeNodeIds' \in SUBSET DedupIds
    /\ UNCHANGED <<dedupOut, dedupTwice>>

\* lines 18-63: the call returns
Dedup ==
    /\ dedupNodes # <<>>
    /\ dedupOut.kind = "none"
    /\ dedupOut' = [kind |-> "result",
                    nodes |-> deduplicateOverlappingNodes(
                                  dedupNodes, selectedHeroNodeIds,
                                  heroTreeNodeIds)]
    /\ UNCHANGED <<dedupNodes, selectedHeroNodeIds, heroTreeNodeIds,
                   dedupTwice>>

\* lines 18-63: a call on the nodes the first call returned, with the same
\* id sets, returns
DedupAgain ==
    /\ dedupOut.kind = "result"
    /\ dedupTwice.kind = "none"
    /\ dedupTwice' = [kind |-> "result",
                      nodes |-> deduplicateOverlappingNodes(
                                    dedupOut.nodes, selectedHeroNodeIds,
                                    heroTreeNodeIds)]
    /\ UNCHANGED <<dedupNodes, selectedHeroNodeIds, heroTreeNodeIds,
                   dedupOut>>

DedupInit == ParserIdle /\ ReaderIdle /\ DiffIdle /\ DedupIdle /\ AnalyzerIdle
    /\ UiIdle /\ HookIdle

DedupNext ==
    /\ CallDedup \/ Dedup \/ DedupAgain
    /\ UNCHANGED <<parserVars, readerVars, diffVars, analyzerVars, uiVars,
                   hookVars>>

DedupSpec == DedupInit /\ [][DedupNext]_vars

----------------------------------------------------------------------------
(* Properties of deduplicateOverlappingNodes *)

\* whether node n is placed at position p
At(n, p) == n.posX = p[1] /\ n.posY = p[2]

\* the input nodes at position p, in input order
GroupAt(p) == SelectSeq(dedupNodes, LAMBDA n : At(n, p))

\* the returned nodes at position p, in output order
KeptAt(p) == SelectSeq(dedupOut.nodes, LAMBDA n : At(n, p))

\* the ids of the nodes of a sequence
IdsOf(ns) == {ns[k].id : k \in 1..Len(ns)}

\* C17: for a group of nodes sharing one position, all of them in
\* heroTreeNodeIds and exactly one in selectedHeroNodeIds, exactly one node
\* is returned for that position, the selected one, in every input order
C17_ActiveKept ==
    dedupOut.kind = "result" =>
        \A p \in Positions :
            /\ Len(GroupAt(p)) >= 2
            /\ IdsOf(GroupAt(p)) \subseteq heroTreeNodeIds
            /\ Cardinality(IdsOf(GroupAt(p)) \cap selectedHeroNodeIds) = 1
            => /\ Len(KeptAt(p)) = 1
               /\ KeptAt(p)[1].id \in selectedHeroNodeIds
               /\ KeptAt(p)[1] \in Range(GroupAt(p))

\* a group of three hero tree nodes whose only selected member comes last in
\* the input
C17_Witness ==
    /\ dedupOut.kind = "result"
    /\ \E p \in Positions :
          /\ Len(GroupAt(p)) = 3
          /\ IdsOf(GroupAt(p)) \subseteq heroTreeNodeIds
          /\ IdsOf(GroupAt(p)) \cap selectedHeroNodeIds = {GroupAt(p)[3].id}

\* C18: a group of more than one node sharing a position, with a member
\* whose id is not in heroTreeNodeIds, is returned whole, whatever
\* selectedHeroNodeIds holds
C18_MixedKept ==
    dedupOut.kind = "result" =>
        \A p \in Positions :
            /\ Len(GroupAt(p)) >= 2
            /\ ~(IdsOf(GroupAt(p)) \subseteq heroTreeNodeIds)
            => KeptAt(p) = GroupAt(p)

\* a group with one member outside heroTreeNodeIds and another member that
\* is a selected hero tree node
C18_Witness ==
    /\ dedupOut.kind = "result"
    /\ \E p \in Positions :
          /\ Len(GroupAt(p)) >= 2
          /\ IdsOf(GroupAt(p)) \ heroTreeNodeIds # {}
          /\ IdsOf(GroupAt(p)) \cap heroTreeNodeIds \cap selectedHeroNodeIds # {}
          /\ Len(KeptAt(p)) >= 2

\* C19: for a group of more than one node sharing a position, all in
\* heroTreeNodeIds and none in selectedHeroNodeIds, exactly one member is
\* returned: the first of the group in input order
C19_FirstFallback ==
    dedupOut.kind = "result" =>
        \A p \in Positions :
            /\ Len(GroupAt(p)) >= 2
            /\ IdsOf(GroupAt(p)) \subseteq heroTreeNodeIds
            /\ IdsOf(GroupAt(p)) \cap selectedHeroNodeIds = {}
            => KeptAt(p) = <<GroupAt(p)[1]>>

\* a group of hero tree nodes without a selected member, listed after a
\* node at another position, while a node elsewhere is selected
C19_Witness ==
    /\ dedupOut.kind = "result"
    /\ selectedHeroNodeIds # {}
    /\ \E p \in Positions :
          /\ Len(GroupAt(p)) = 2
          /\ IdsOf(GroupAt(p)) \subseteq heroTreeNodeIds
          /\ IdsOf(GroupAt(p)) \cap selectedHeroNodeIds = {}
          /\ ~At(dedupNodes[1], p)
          /\ Len(KeptAt(p)) = 1

\* whether no two nodes of the input share a position
NoOverlap ==
    \A j, k \in 1..Len(dedupNodes) :
        j # k => ~At(dedupNodes[j], <<dedupNodes[k].posX, dedupNodes[k].posY>>)

\* C20: every returned node is a node of the input with all its fields as
\* they were, and when no two input nodes share a position the output
\* equals the input, in the same order
C20_Unmodified ==
    dedupOut.kind = "result" =>
        /\ \A k \in 1..Len(dedupOut.nodes) :
              dedupOut.nodes[k] \in Range(dedupNodes)
        /\ NoOverlap => dedupOut.nodes = dedupNodes

\* three hero tree nodes at three positions, listed in descending id order,
\* were returned as they were given
C20_Witness ==
    /\ dedupOut.kind = "result"
    /\ Len(dedupNodes) = 3
    /\ NoOverlap
    /\ dedupNodes[1].id > dedupNodes[2].id
    /\ IdsOf(dedupNodes) \subseteq heroTreeNodeIds
    /\ dedupOut.nodes[1].entries = dedupNodes[1].entries


\* C30: deduplicateOverlappingNodes is idempotent: a second call on the
\* nodes it returned, with the same id sets, returns the same nodes in the
\* same order.
C30_Idempotent ==
    dedupTwice.kind = "result" => dedupTwice.nodes = dedupOut.nodes

\* C30 witness: the first call dropped a node of three and kept two, at two
\* positions, and the second call has returned
C30_Witness ==
    /\ dedupTwice.kind = "result"
    /\ Len(dedupNodes) = 3
    /\ Len(dedupOut.nodes) = 2
    /\ positionKey(dedupOut.nodes[1]) # positionKey(dedupOut.nodes[2])

----------------------------------------------------------------------------
(***************************************************************************)
(* The component analysis of TalentTreeView                                *)
(* (src/components/TalentTreeView.tsx, the useMemo of lines 64-196) and    *)
(* the generator that writes the topology it reads                         *)
(* (scripts/fetchTalentData.ts).  A Set or a Map key list is a sequence    *)
(* without repetitions, in insertion order.  Component indices are the     *)
(* 0-based indices of the code.                                            *)
(***************************************************************************)

\* lines 39-45: the indices of the selections with isSelected
selectedIndices(sels) ==
    { sels[k].nodeIndex : k \in { j \in 1..Len(sels) : sels[j].isSelected } }

\* the ids of a node list
NodeIdSet(allNodes) == { allNodes[k].id : k \in 1..Len(allNodes) }

\* lines 71-74: the calls adjacency.get(owner)?.add(other), in order: each
\* edge adds its to-end to its from-end's set, then the reverse
AdjacencyAdds(allEdges) ==
    [k \in 1..(2 * Len(allEdges)) |->
        LET edge == allEdges[(k + 1) \div 2]
        IN IF k % 2 = 1
           THEN [owner |-> edge.fromNodeId, other |-> edge.toNodeId]
           ELSE [owner |-> edge.toNodeId, other |-> edge.fromNodeId]]

\* the values a Set holds after the adds of a sequence, in insertion order
InsertionOrder(adds) ==
    LET first == { k \in 1..Len(adds) :
                     \A j \in 1..(k - 1) : adds[j] # adds[k] }
        place(k) == Cardinality({ j \in first : j <= k })
    IN [n \in 1..Cardinality(first) |->
           adds[CHOOSE k \in first : place(k) = n]]

\* lines 69-74: the adjacency map; a key for every node, and ?. skips an
\* add whose owner is not a key
adjacency(allNodes, allEdges) ==
    LET adds == AdjacencyAdds(allEdges)
    IN [id \in NodeIdSet(allNodes) |->
           LET mine == SelectSeq(adds, LAMBDA a : a.owner = id)
           IN InsertionOrder([k \in 1..Len(mine) |-> mine[k].other])]

\* a traversal that follows only the first edge of a node
Pushed_FirstOnly(adj, id, visited) ==
    IF id \in DOMAIN adj /\ adj[id] # <<>> /\ adj[id][1] \notin visited
    THEN <<adj[id][1]>>
    ELSE <<>>

\* lines 91-93: the neighbours of id that are pushed on the queue
Pushed(adj, id, visited) ==
    IF id \in DOMAIN adj
    THEN SelectSeq(adj[id], LAMBDA n : n \notin visited)
    ELSE <<>>

\* lines 87-93: one turn of the while loop
BfsStep(adj, st) ==
    LET id == Head(st.queue)
    IN IF id \in st.visited
       THEN [st EXCEPT !.queue = Tail(st.queue)]
       ELSE [queue     |-> Tail(st.queue)
                               \o Pushed(adj, id, st.visited \cup {id}),
             visited   |-> st.visited \cup {id},
             component |-> Append(st.component, id)]

\* lines 86-94: while (queue.length > 0)
RECURSIVE BfsLoop(_, _)
BfsLoop(adj, st) ==
    IF st.queue = <<>> THEN st ELSE BfsLoop(adj, BfsStep(adj, st))

\* lines 82-98: one turn of the loop over allNodes
ComponentStep(adj, acc, node) ==
    IF node.id \in acc.visited
    THEN acc
    ELSE LET st == BfsLoop(adj, [queue     |-> <<node.id>>,
                                 visited   |-> acc.visited,
                                 component |-> <<>>])
         IN [visited    |-> st.visited,
             components |-> Append(acc.components, st.component)]

\* lines 81-99: for (const node of allNodes), turns lo..hi in order (the
\* range is split in two to keep the evaluation shallow)
RECURSIVE ComponentLoop(_, _, _, _, _)
ComponentLoop(adj, allNodes, lo, hi, acc) ==
    IF lo > hi THEN acc
    ELSE IF lo = hi THEN ComponentStep(adj, acc, allNodes[lo])
    ELSE LET mid  == (lo + hi) \div 2
             left == ComponentLoop(adj, allNodes, lo, mid, acc)
         IN ComponentLoop(adj, allNodes, mid + 1, hi, left)

\* lines 69-99: the components, in the order they were found
components(allNodes, allEdges) ==
    ComponentLoop(adjacency(allNodes, allEdges), allNodes, 1, Len(allNodes),
                  [visited |-> {}, components |-> <<>>]).components

\* line 124: the least and the greatest size of a hero tree component
HeroMinSize == 10
HeroMaxSize == 25

\* line 107: allNodes.find(n => n.id === id), null for undefined
FindNode(allNodes, id) ==
    IF \E k \in 1..Len(allNodes) : allNodes[k].id = id
    THEN allNodes[CHOOSE k \in 1..Len(allNodes) :
                      /\ allNodes[k].id = id
                      /\ \A j \in 1..(k - 1) : allNodes[j].id # id]
    ELSE null

\* line 113: allNodes.findIndex(n => n.id === id)
FindIndex(allNodes, id) ==
    IF \E k \in 1..Len(allNodes) : allNodes[k].id = id
    THEN (CHOOSE k \in 1..Len(allNodes) :
              /\ allNodes[k].id = id
              /\ \A j \in 1..(k - 1) : allNodes[j].id # id) - 1
    ELSE -1

\* line 110: the node is restricted to other specs
RestrictedAway(node, spec) ==
    /\ HAS(node, "allowedSpecs")
    /\ Len(node.allowedSpecs) > 0
    /\ \A k \in 1..Len(node.allowedSpecs) : node.allowedSpecs[k] # spec

\* lines 106-117: the ids of a component that selectedCount counts
Counted(data, selected, id) ==
    LET node == FindNode(data.nodes, id)
    IN /\ node # null
       /\ ~RestrictedAway(node, data.specId)
       /\ FindIndex(data.nodes, id) \in selected

\* lines 103-119: index, size and selectedCount of every component
componentInfo(data, comps, selected) ==
    [c \in 1..Len(comps) |->
        [index         |-> c - 1,
         size          |-> Len(comps[c]),
         selectedCount |->
             Cardinality({ k \in 1..Len(comps[c]) :
                             Counted(data, selected, comps[c][k]) })]]

\* a size test that leaves out both ends of the range
IsHeroSize_Exclusive(c) == c.size > HeroMinSize /\ c.size < HeroMaxSize

\* line 124: the filter of heroTreeComponents
IsHeroSize(c) == c.size >= HeroMinSize /\ c.size <= HeroMaxSize

\* lines 123-125: the indices of the components of hero tree size, in order
heroTreeComponents(info) ==
    LET kept == SelectSeq(info, IsHeroSize)
    IN [k \in 1..Len(kept) |-> kept[k].index]

\* a number where the code also allows null
Num(n) == [kind |-> "number", value |-> n]

\* a comparison that lets a later component with an equal count win
BestStep_Ties(info, best, compIdx) ==
    IF info[compIdx + 1].selectedCount >= best.maxSelectedCount
    THEN [maxSelectedCount      |-> info[compIdx + 1].selectedCount,
          selectedHeroComponent |-> Num(compIdx)]
    ELSE best

\* lines 132-136: one turn of the loop over heroTreeComponents
BestStep(info, best, compIdx) ==
    IF info[compIdx + 1].selectedCount > best.maxSelectedCount
    THEN [maxSelectedCount      |-> info[compIdx + 1].selectedCount,
          selectedHeroComponent |-> Num(compIdx)]
    ELSE best

\* lines 129-137: the hero tree component with the most selected nodes
RECURSIVE BestLoop(_, _, _, _)
BestLoop(info, heroes, k, best) ==
    IF k > Len(heroes) THEN best
    ELSE BestLoop(info, heroes, k + 1, BestStep(info, best, heroes[k]))

selectedHeroComponent(info, heroes) ==
    BestLoop(info, heroes, 1,
             [maxSelectedCount |-> 0, selectedHeroComponent |-> null]
            ).selectedHeroComponent

\* lines 140-143: the ids of every hero tree component
HeroTreeNodeIdsOf(comps, heroes) ==
    UNION { Range(comps[heroes[k] + 1]) : k \in 1..Len(heroes) }

\* lines 145-147: the ids of the selected hero tree component
SelectedHeroNodeIdsOf(comps, best) ==
    IF best # null THEN Range(comps[best.value + 1]) ELSE {}

\* lines 64-147: the analysis of one render
Analyze(data, sels) ==
    LET comps  == components(data.nodes, data.edges)
        info   == componentInfo(data, comps, selectedIndices(sels))
        heroes == heroTreeComponents(info)
        best   == selectedHeroComponent(info, heroes)
    IN [kind                  |-> "result",
        components            |-> comps,
        componentInfo         |-> info,
        heroTreeComponents    |-> heroes,
        selectedHeroComponent |-> best,
        heroTreeNodeIds       |-> HeroTreeNodeIdsOf(comps, heroes),
        selectedHeroNodeIds   |-> SelectedHeroNodeIdsOf(comps, best)]

(***************************************************************************)
(* scripts/fetchTalentData.ts, main: the topology of one spec is written   *)
(* from the nodes and edges of its tree.  Only the fields the component    *)
(* analysis reads are kept: a node's id and allowedSpecs, an edge's ends.  *)
(***************************************************************************)

\* a generator that writes the nodes in the order of the tables
SortById_AsListed(list) == list

\* line 496: treeNodeList.sort((a, b) => a.ID - b.ID); IDs are distinct
SortById(list) ==
    LET rank == [k \in 1..Len(list) |->
                    Cardinality({ j \in 1..Len(list) :
                                    list[j].ID < list[k].ID })]
    IN [n \in 1..Len(list) |->
           list[CHOOSE k \in 1..Len(list) : rank[k] = n - 1]]

\* lines 532-546: the node written for a tree node
nodeData(node) ==
    IF HAS(node, "allowedSpecs") /\ Len(node.allowedSpecs) > 0
    THEN [id |-> node.ID, allowedSpecs |-> InsertionOrder(node.allowedSpecs)]
    ELSE [id |-> node.ID]

\* lines 549-553: the edge written for a tree edge
edgeData(e) == [fromNodeId |-> e.LeftTraitNodeID, toNodeId |-> e.RightTraitNodeID]

\* lines 491-577: the specData written for a spec
writeSpecData(spec, nodeList, edgeList) ==
    LET sorted == SortById(nodeList)
    IN [kind   |-> "data",
        specId |-> spec,
        nodes  |-> [k \in 1..Len(sorted) |-> nodeData(sorted[k])],
        edges  |-> [k \in 1..Len(edgeList) |-> edgeData(edgeList[k])]]

(***************************************************************************)
(* The trees the model generates topologies from.  Every edge joins two    *)
(* nodes of the tree.  Small trees carry every edge list up to MaxEdges;   *)
(* large trees are made of chains, to reach the sizes of hero trees.       *)
(***************************************************************************)
MaxTopoNodes == 4
MaxEdges == 3

\* the spec a topology is written for, and another one
ThisSpec == 254
OtherSpec == 253

TraitEdge(a, b) == [LeftTraitNodeID |-> a, RightTraitNodeID |-> b]

\* an ordered pair of distinct small ids, as one number
EdgeCodes ==
    { a * (MaxTopoNodes + 1) + b :
        a \in 1..MaxTopoNodes, b \in (1..MaxTopoNodes) } \
    { a * (MaxTopoNodes + 1) + a : a \in 1..MaxTopoNodes }

EdgeOfCode(c) ==
    TraitEdge(c \div (MaxTopoNodes + 1), c % (MaxTopoNodes + 1))

\* edge lists in two enumeration orders
SmallEdgeLists ==
    { [k \in 1..Len(cs) |-> EdgeOfCode(cs[k])] :
        cs \in { t \in SeqsUpTo(EdgeCodes, MaxEdges) :
                   \/ \A k \in 1..(Len(t) - 1) : t[k] < t[k + 1]
                   \/ \A k \in 1..(Len(t) - 1) : t[k] > t[k + 1] } }

\* the nodes of a tree as the tables list them: ascending or descending
Reverse(s) == [k \in 1..Len(s) |-> s[Len(s) + 1 - k]]

SmallTrees ==
    LET asc == [k \in 1..MaxTopoNodes |-> [ID |-> k]]
    IN { [nodes |-> ns, edges |-> es] :
           ns \in {asc, Reverse(asc)}, es \in SmallEdgeLists }

\* the sizes of the chains of a large tree
ChainSizes == {9, 10, 12, 15, 25, 26}

ChainSizeLists ==
    { <<a>> : a \in ChainSizes } \cup { <<a, b>> : a, b \in ChainSizes }

\* the spec restrictions of the nodes of a chain: none, or the first node
\* restricted to another spec, the second with an empty list and the third
\* restricted to a list that holds this spec
ChainNode(id, place, layout) ==
    IF layout = "open" \/ place > 3 THEN [ID |-> id]
    ELSE [ID |-> id,
          allowedSpecs |-> CASE place = 1 -> <<OtherSpec>>
                             [] place = 2 -> <<>>
                             [] place = 3 -> <<OtherSpec, ThisSpec, OtherSpec>>]

\* a chain of `size` nodes with ids first..(first + size - 1); its edges
\* alternate their direction
ChainNodes(first, size, layout) ==
    [k \in 1..size |-> ChainNode(first + k - 1, k, layout)]

ChainEdges(first, size) ==
    [k \in 1..(size - 1) |->
        IF k % 2 = 1 THEN TraitEdge(first + k - 1, first + k)
                     ELSE TraitEdge(first + k, first + k - 1)]

ChainTree(sizes, layouts) ==
    IF Len(sizes) = 1
    THEN [nodes |-> ChainNodes(1, sizes[1], layouts[1]),
          edges |-> ChainEdges(1, sizes[1])]
    ELSE [nodes |-> ChainNodes(1, sizes[1], layouts[1])
                        \o ChainNodes(sizes[1] + 1, sizes[2], layouts[2]),
          edges |-> ChainEdges(sizes[1] + 1, sizes[2])
                        \o ChainEdges(1, sizes[1])]

LargeTrees ==
    { ChainTree(sizes, layouts) :
        sizes \in ChainSizeLists,
        layouts \in { <<a, b>> : a, b \in {"open", "mixed"} } }

Trees == SmallTrees \cup LargeTrees

\* a parsed build's selections over the first `count` indices
selectionsOf(count, chosen) ==
    [k \in 1..count |-> [nodeIndex |-> k - 1, isSelected |-> (k - 1) \in chosen]]

\* the index sets the selections are drawn from: a run of indices from 0
\* and a run of indices from the size of a chain
ChosenSets ==
    { (0..(k1 - 1)) \cup (s..(s + k2 - 1)) :
        k1 \in {0, 1, 3}, k2 \in {0, 1, 3}, s \in ChainSizes }

SelectionsFor(data) ==
    { selectionsOf(Len(data.nodes), chosen \cap (0..(Len(data.nodes) - 1))) :
        chosen \in ChosenSets }

\* main of fetchTalentData.ts writes the topology of a spec
WriteSpecData ==
    /\ specData.kind = "none"
    /\ \E tree \in Trees :
         /\ treeNodeList' = tree.nodes
         /\ specData' = writeSpecData(ThisSpec, tree.nodes, tree.edges)
    /\ UNCHANGED <<selectedNodes, analysis>>

\* TalentTreeView renders a parsed build over the topology
RenderTree ==
    /\ specData.kind = "data"
    /\ analysis.kind = "none"
    /\ \E sels \in SelectionsFor(specData) :
         /\ selectedNodes' = sels
         /\ analysis' = Analyze(specData, sels)
    /\ UNCHANGED <<treeNodeList, specData>>

AnalyzerInit ==
    ParserIdle /\ ReaderIdle /\ DiffIdle /\ DedupIdle /\ AnalyzerIdle
    /\ UiIdle /\ HookIdle

AnalyzerNext ==
    /\ WriteSpecData \/ RenderTree
    /\ UNCHANGED <<parserVars, readerVars, diffVars, dedupVars, uiVars,
                   hookVars>>

AnalyzerSpec == AnalyzerInit /\ [][AnalyzerNext]_vars

AnalysisDone == analysis.kind = "result"

----------------------------------------------------------------------------
(***************************************************************************)
(* Properties of the component analysis                                    *)
(***************************************************************************)

\* the ids an edge joins to an id of S
Neighbours(data, S) ==
    { data.edges[k].toNodeId :
        k \in { j \in 1..Len(data.edges) : data.edges[j].fromNodeId \in S } }
    \cup
    { data.edges[k].fromNodeId :
        k \in { j \in 1..Len(data.edges) : data.edges[j].toNodeId \in S } }

\* the ids a path of edges joins to an id of S, S included
RECURSIVE JoinedTo(_, _)
JoinedTo(data, S) ==
    LET next == S \cup Neighbours(data, S)
    IN IF next = S THEN S ELSE JoinedTo(data, next)

\* the grouping of a component list: the set of its components as sets
Grouping(comps) == { Range(comps[c]) : c \in 1..Len(comps) }

C22_HeroComponents ==
    AnalysisDone =>
        LET comps == analysis.components
            sized == { c \in 1..Len(comps) : Len(comps[c]) \in 10..25 }
        IN /\ \A c \in 1..Len(comps) :
                (c - 1) \in Range(analysis.heroTreeComponents) <=> c \in sized
           /\ analysis.heroTreeNodeIds = UNION { Range(comps[c]) : c \in sized }

\* C22 witness: a component of 10 nodes and one of 26, no node selected: the
\* first is a hero tree component, the second is not, none is selected
C22_Witness ==
    /\ AnalysisDone
    /\ Len(analysis.components) = 2
    /\ Len(analysis.components[1]) = 10
    /\ Len(analysis.components[2]) = 26
    /\ analysis.heroTreeComponents = <<0>>
    /\ analysis.selectedHeroComponent = null
    /\ Cardinality(analysis.heroTreeNodeIds) = 10

\* the topology node with an id
NodeOf(id) ==
    specData.nodes[CHOOSE k \in 1..Len(specData.nodes) :
                       specData.nodes[k].id = id]

\* the position of the node with an id in the topology, from 0
PlaceOf(id) ==
    (CHOOSE k \in 1..Len(specData.nodes) : specData.nodes[k].id = id) - 1

\* the build selects the index i
SelectsIndex(i) ==
    \E k \in 1..Len(selectedNodes) :
        selectedNodes[k].nodeIndex = i /\ selectedNodes[k].isSelected

\* the restriction list of a node is absent, empty or holds the spec
OpenToSpec(node) ==
    \/ ~HAS(node, "allowedSpecs")
    \/ node.allowedSpecs = <<>>
    \/ specData.specId \in Range(node.allowedSpecs)

\* the number of selected nodes of a component that are open to the spec
CountOf(comp) ==
    Cardinality({ id \in Range(comp) :
                    SelectsIndex(PlaceOf(id)) /\ OpenToSpec(NodeOf(id)) })

\* C23: the selected hero tree component is the component of 10 to 25 nodes
\* with the highest count of selected nodes open to the spec; of several
\* with the highest count it is the first found; when every count is zero
\* there is none.  selectedHeroNodeIds holds the ids of that component.
C23_SelectedHero ==
    AnalysisDone =>
        LET comps == analysis.components
            cands == { c \in 1..Len(comps) : Len(comps[c]) \in 10..25 }
            tops  == { c \in cands :
                         /\ CountOf(comps[c]) > 0
                         /\ \A d \in cands :
                              CountOf(comps[d]) <= CountOf(comps[c]) }
        IN IF tops = {}
           THEN /\ analysis.selectedHeroComponent = null
                /\ analysis.selectedHeroNodeIds = {}
           ELSE LET first == CHOOSE c \in tops : \A d \in tops : c <= d
                IN /\ analysis.selectedHeroComponent = Num(first - 1)
                   /\ analysis.selectedHeroNodeIds = Range(comps[first])

\* C23 witness: hero tree components of 15 and of 12 nodes; the only
\* selected node of the larger one is restricted to another spec, the
\* smaller one holds every counted selected node and is the selected one
C23_Witness ==
    /\ AnalysisDone
    /\ Len(analysis.components) = 2
    /\ Len(analysis.components[1]) = 15
    /\ Len(analysis.components[2]) = 12
    /\ \E id \in Range(analysis.components[1]) :
         SelectsIndex(PlaceOf(id)) /\ ~OpenToSpec(NodeOf(id))
    /\ CountOf(analysis.components[1]) = 0
    /\ CountOf(analysis.components[2]) > 0
    /\ analysis.selectedHeroComponent = Num(1)

\* the rank of an id among the ids of the topology in ascending order, from 0
RankOf(id) ==
    Cardinality({ n \in NodeIdSet(specData.nodes) : n < id })

\* C24: selection index i stands for the node of rank i in ascending id
\* order: the selectedCount of every component is the number of its nodes
\* that are open to the spec and whose rank is an index the build selects.
C24_IndexIsRank ==
    AnalysisDone =>
        \A c \in 1..Len(analysis.components) :
            analysis.componentInfo[c].selectedCount =
                Cardinality({ id \in Range(analysis.components[c]) :
                                /\ SelectsIndex(RankOf(id))
                                /\ OpenToSpec(NodeOf(id)) })

\* C24 witness: the tables list the nodes in descending order and the build
\* selects index 0 only; the component of the lowest id counts one selected
\* node, the component of the highest id is another one and counts none
C24_Witness ==
    /\ AnalysisDone
    /\ Len(treeNodeList) = MaxTopoNodes
    /\ treeNodeList[1].ID > treeNodeList[2].ID
    /\ SelectsIndex(0)
    /\ \A i \in 1..(MaxTopoNodes - 1) : ~SelectsIndex(i)
    /\ \E c, d \in 1..Len(analysis.components) :
         /\ c # d
         /\ treeNodeList[MaxTopoNodes].ID \in Range(analysis.components[c])
         /\ treeNodeList[1].ID \in Range(analysis.components[d])
         /\ analysis.componentInfo[c].selectedCount = 1
         /\ analysis.componentInfo[d].selectedCount = 0

----------------------------------------------------------------------------
(***************************************************************************)
(* The application: App (src/App.tsx), CompareInput                        *)
(* (src/components/CompareInput.tsx) and its two BuildInputs               *)
(* (src/components/BuildInput.tsx).  The slots "A" and "B" are the two     *)
(* BuildInputs and the builds they feed.  A string that React state holds  *)
(* where null is also allowed is a record [kind |-> "string", text |-> t]. *)
(***************************************************************************)

\* talentParser.ts lines 190-223: the node loop, run to its end
RECURSIVE ParseNodes(_, _, _)
ParseNodes(data, pos, ns) ==
    IF ~LoopCondition(data, pos) THEN ns
    ELSE LET d == DecodeNode(data, pos, Len(ns))
         IN ParseNodes(data, d.pos, Append(ns, d.node))

\* talentParser.ts lines 225-232: the record returned
ParsedRecord(data, ver, spec, hash, ns) ==
    LET r == [kind |-> "record", version |-> ver, specId |-> spec,
              treeHash |-> hash, nodes |-> ns, rawBytes |-> data]
    IN IF spec \in DOMAIN SPEC_NAMES
       THEN r @@ ("specName" :> SPEC_NAMES[spec]) ELSE r

\* talentParser.ts lines 177-232: the tree hash, the nodes and the return
ParseAfterHash(data, ver, spec, h) ==
    ParsedRecord(data, ver, spec, JoinHash(h.hashBytes, 1, Len(h.hashBytes)),
                 ParseNodes(data, h.pos, <<>>))

\* talentParser.ts lines 175-232: from the specId on
ParseAfterSpecId(data, ver, sp) ==
    ParseAfterHash(data, ver, sp.result,
                   ReadHashBytes(data, 0, 15,
                                 [i |-> 0, hashBytes |-> <<>>, pos |-> sp.pos]))

\* talentParser.ts lines 172-232: from the version on
ParseAfterVersion(data, v) ==
    ParseAfterSpecId(data, v.result, readBits(data, v.pos, 16))

\* talentParser.ts lines 162-232: from the decoded bytes on
ParseDecoded(d) ==
    IF ~d.ok
    THEN [kind |-> "thrown",
          error |-> [kind |-> "InvalidCharacter", char |-> d.char]]
    ELSE IF TooShort(d.bytes)
    THEN [kind |-> "thrown",
          error |-> [kind |-> "TooShort", got |-> Len(d.bytes)]]
    ELSE ParseAfterVersion(d.bytes, readBits(d.bytes, 0, 8))

\* talentParser.ts lines 157-233: what parseTalentString returns or throws
parseTalentString(talentString) ==
    ParseDecoded(decodeBase64(trim(talentString)))

Slots == {"A", "B"}

Other(slot) == IF slot = "A" THEN "B" ELSE "A"

Str(t) == [kind |-> "string", text |-> t]

\* the texts an input holds: empty, blank, one with a character outside the
\* alphabet, one too short, two builds of one spec, the first of them
\* between spaces, and a build of another spec
GoodText    == SamplePrefix \o <<"A", "/">>
SameSpecText == SamplePrefix \o <<"A", "A">>
OtherSpecText == VariedPrefix \o <<"A", "A">>

Texts ==
    { <<>>, <<" ">>, <<"!">>, <<"A", "A">>, GoodText, SameSpecText,
      <<" ">> \o GoodText \o <<" ">>, OtherSpecText }

\* BuildInput.tsx lines 25-28: the state of a BuildInput that has not loaded
NothingLoaded ==
    [specId |-> null, parsedNodes |-> null, error |-> null,
     lastLoadedValue |-> <<>>]

\* BuildInput.tsx lines 58-72: the try and the catch around the parse
LoadParsed(trimmed, data) ==
    IF data.kind = "record"
    THEN [state  |-> [specId          |-> Num(data.specId),
                      parsedNodes     |-> [kind  |-> "nodes",
                                           nodes |-> data.nodes],
                      error           |-> null,
                      lastLoadedValue |-> trimmed],
          called |-> TRUE, data |-> data, rawString |-> Str(trimmed)]
    ELSE [state  |-> [specId          |-> null,
                      parsedNodes     |-> null,
                      error           |-> data.error,
                      lastLoadedValue |-> <<>>],
          called |-> TRUE, data |-> null, rawString |-> null]

\* an effect that does nothing on an empty value
LoadTrimmed_EmptyIgnored(trimmed, st) ==
    IF trimmed = <<>> \/ trimmed = st.lastLoadedValue
    THEN [state |-> st, called |-> FALSE]
    ELSE LoadParsed(trimmed, parseTalentString(trimmed))

\* BuildInput.tsx lines 43-72: the effect on the trimmed value
LoadTrimmed(trimmed, st) ==
    IF trimmed = <<>>
    THEN IF st.lastLoadedValue # <<>>
         THEN [state  |-> NothingLoaded,
               called |-> TRUE, data |-> null, rawString |-> null]
         ELSE [state |-> st, called |-> FALSE]
    ELSE IF trimmed = st.lastLoadedValue
    THEN [state |-> st, called |-> FALSE]
    ELSE LoadParsed(trimmed, parseTalentString(trimmed))

\* BuildInput.tsx lines 40-73: the auto-load effect on a value; what it
\* leaves in the state of the BuildInput and what it passes to onLoad
AutoLoad(value, st) == LoadTrimmed(trim(value), st)

\* App.tsx line 47: ${build.specName || `Spec ${build.specId}`}
AppNameOrId(build) ==
    IF HAS(build, "specName") /\ build.specName # ""
    THEN <<build.specName>> ELSE <<"Spec ", ToString(build.specId)>>

\* App.tsx lines 46-48
specMismatchError(a, b) ==
    IF a # null /\ b # null /\ a.specId # b.specId
    THEN Str(<<"Cannot compare different specs: ">> \o AppNameOrId(a)
             \o <<" vs ">> \o AppNameOrId(b))
    ELSE null

\* a guard that only asks for two loaded builds
canCompare_BothLoaded(a, b) == a # null /\ b # null

\* App.tsx line 68
canCompare(a, b) == a # null /\ b # null /\ specMismatchError(a, b) = null

\* App.tsx line 51
buildsIdentical(sa, sb) ==
    /\ sa # null /\ sa.text # <<>>
    /\ sb # null /\ sb.text # <<>>
    /\ sa = sb

\* App.tsx lines 88-108 and CompareView.tsx lines 47-50: what App shows
\* for its builds a and b; CompareView calls diffTalentBuilds when rendered
Shown(a, b, identical) ==
    [kind      |-> "app",
     error     |-> specMismatchError(a, b),
     identical |-> identical,
     compare   |-> IF canCompare(a, b) THEN diffTalentBuilds(a, b)
                   ELSE [kind |-> "none"],
     hint      |-> /\ ~canCompare(a, b)
                   /\ a # null \/ b # null
                   /\ specMismatchError(a, b) = null]

\* App.tsx lines 70-111: a render of App
Render(builds, strings) ==
    Shown(builds["A"], builds["B"],
          buildsIdentical(strings["A"], strings["B"]))

\* App mounts with the builds of the URL as the values of the inputs; both
\* auto-load effects are due
AppInit ==
    /\ buildValue \in [Slots -> Texts]
    /\ effectDue = [s \in Slots |-> "mount"]
    /\ inputState = [s \in Slots |-> NothingLoaded]
    /\ appBuild = [s \in Slots |-> null]
    /\ appString = [s \in Slots |-> null]
    /\ view = Render([s \in Slots |-> null], [s \in Slots |-> null])
    /\ ParserIdle /\ ReaderIdle /\ DiffIdle /\ DedupIdle /\ AnalyzerIdle
    /\ HookIdle

\* BuildInput.tsx line 94 and CompareInput.tsx lines 34, 50: the user edits
\* the input of a slot
ChangeValue(slot, text) ==
    /\ text # buildValue[slot]
    /\ buildValue' = [buildValue EXCEPT ![slot] = text]
    /\ effectDue' = [effectDue EXCEPT ![slot] = "change"]
    /\ UNCHANGED <<inputState, appBuild, appString, view>>

\* CompareInput.tsx lines 22-26: the swap button
handleSwap ==
    /\ buildValue' = [s \in Slots |-> buildValue[Other(s)]]
    /\ effectDue' = [s \in Slots |->
                        IF buildValue[Other(s)] # buildValue[s]
                        THEN "swap" ELSE effectDue[s]]
    /\ UNCHANGED <<inputState, appBuild, appString, view>>

\* App.tsx lines 58-66 and 70-111: onLoad sets the build and the string of
\* the slot, and App renders
Reported(slot, builds, strings) ==
    /\ appBuild' = builds
    /\ appString' = strings
    /\ view' = Render(builds, strings)

\* BuildInput.tsx lines 40-73 with what the effect r does to App
Loaded(slot, r) ==
    /\ inputState' = [inputState EXCEPT ![slot] = r.state]
    /\ IF r.called
       THEN Reported(slot, [appBuild EXCEPT ![slot] = r.data],
                     [appString EXCEPT ![slot] = r.rawString])
       ELSE UNCHANGED <<appBuild, appString, view>>

\* BuildInput.tsx lines 40-73: the auto-load effect of a slot runs
RunEffect(slot) ==
    /\ effectDue[slot] # "no"
    /\ Loaded(slot, AutoLoad(buildValue[slot], inputState[slot]))
    /\ effectDue' = [effectDue EXCEPT ![slot] = "no"]
    /\ UNCHANGED buildValue

AppNext ==
    /\ \/ \E slot \in Slots, text \in Texts : ChangeValue(slot, text)
       \/ handleSwap
       \/ \E slot \in Slots : RunEffect(slot)
    /\ UNCHANGED <<parserVars, readerVars, diffVars, dedupVars, analyzerVars,
                   hookVars>>

AppSpec == AppInit /\ [][AppNext]_vars

----------------------------------------------------------------------------
(***************************************************************************)
(* Properties of the application                                           *)
(***************************************************************************)

\* the auto-load effect of a slot runs in this step
EffectRan(slot) == effectDue[slot] # "no" /\ effectDue'[slot] = "no"

\* the value of a slot is not empty after trimming and its parse fails
ParseFails(slot) ==
    /\ trim(buildValue[slot]) # <<>>
    /\ parseTalentString(trim(buildValue[slot])).kind = "thrown"

\* C25: when the parse of a new input fails, the failure is shown and what
\* was displayed stays: the build loaded earlier for the slot and the view
\* rendered from it are unchanged by the step.
C25_FailureKeepsState ==
    [][\A slot \in Slots :
          (EffectRan(slot) /\ ParseFails(slot)) =>
              /\ inputState'[slot].error # null
              /\ appBuild'[slot] = appBuild[slot]
              /\ view' = view]_vars

\* C26: whenever the value of a slot is empty after trimming and its effect
\* has run, specId, parsedNodes and error of the BuildInput are all null.
C26_EmptyClears ==
    \A slot \in DOMAIN buildValue :
        (effectDue[slot] = "no" /\ trim(buildValue[slot]) = <<>>) =>
            /\ inputState[slot].specId = null
            /\ inputState[slot].parsedNodes = null
            /\ inputState[slot].error = null

\* C27: CompareView is rendered, and diffTalentBuilds called, only when both
\* builds are loaded and have the same specId, and the call never throws.
C27_CompareGuard ==
    (view.kind = "app" /\ view.compare.kind # "none") =>
        /\ appBuild["A"] # null
        /\ appBuild["B"] # null
        /\ appBuild["A"].specId = appBuild["B"].specId
        /\ view.compare.kind = "result"

\* C27 witness: the inputs held builds of two specs and were swapped; the
\* effect of slot A has run and that of slot B has not, and CompareView is
\* rendered on two builds of one spec
C27_Witness ==
    /\ view.kind = "app"
    /\ effectDue["A"] = "no"
    /\ effectDue["B"] = "swap"
    /\ buildValue["A"] = OtherSpecText
    /\ buildValue["B"] = GoodText
    /\ view.compare.kind = "result"

\* what the parent should hold for a value: the parsed build, or null
ExpectedBuild(value) ==
    IF parseTalentString(trim(value)).kind = "record"
    THEN parseTalentString(trim(value))
    ELSE null

\* C29: once the effect for the latest value of a slot has run, the build
\* last passed to onLoad, which App keeps (null before any call), is the
\* parse of the trimmed value when that parse succeeds and null otherwise.
C29_ReportedIsParsed ==
    \A slot \in DOMAIN buildValue :
        effectDue[slot] = "no" =>
            appBuild[slot] = ExpectedBuild(buildValue[slot])

\* C29 witness: slot A was loaded and then emptied, slot B holds a build
\* between spaces; both effects have run
C29_Witness ==
    /\ view.kind = "app"
    /\ effectDue = [s \in Slots |-> "no"]
    /\ buildValue["A"] = <<>>
    /\ appString["A"] = null
    /\ appBuild["A"] = null
    /\ buildValue["B"] = <<" ">> \o GoodText \o <<" ">>
    /\ appBuild["B"] # null
    /\ appString["B"] = Str(GoodText)

----------------------------------------------------------------------------
(***************************************************************************)
(* useSpecData (src/hooks/useSpecData.ts) as BuildInput uses it: the       *)
(* specId argument changes from render to render, every non-null specId    *)
(* starts a dynamic import, and the imports settle in any order.           *)
(***************************************************************************)

\* the imports that may be unsettled at one time
MaxPending == 3

\* the specIds BuildInput passes: those of the builds it parses
HookSpecIds == {253, 254}

\* the default export of ../data/specs/${specId}.json
SpecFile(id) == [kind |-> "data", specId |-> id]

\* useSpecData.ts lines 16-18 and 20-24: BuildInput mounts with a null
\* specId; the effect sets data to null
HookInit ==
    /\ hookSpecId = null
    /\ hookPending = <<>>
    /\ hookState = [kind |-> "hook", data |-> null, loading |-> FALSE,
                    error |-> null]
    /\ ParserIdle /\ ReaderIdle /\ DiffIdle /\ DedupIdle /\ AnalyzerIdle
    /\ UiIdle

\* useSpecData.ts lines 20-24: a render passes null, the effect runs
ClearSpecId ==
    /\ hookSpecId # null
    /\ hookSpecId' = null
    /\ hookState' = [hookState EXCEPT !.data = null]
    /\ UNCHANGED hookPending

\* useSpecData.ts lines 26-30: a render passes another specId, the effect
\* runs and starts the import
RequestSpecId(id) ==
    /\ hookSpecId # Num(id)
    /\ Len(hookPending) < MaxPending
    /\ hookSpecId' = Num(id)
    /\ hookState' = [hookState EXCEPT !.loading = TRUE, !.error = null]
    /\ hookPending' = Append(hookPending, id)

\* what is left of the unsettled imports when the k-th settles
Settled(k) ==
    SubSeq(hookPending, 1, k - 1) \o SubSeq(hookPending, k + 1, Len(hookPending))

\* useSpecData.ts lines 31-34: an import is fulfilled
ImportFulfilled(k) ==
    /\ hookState' = [hookState EXCEPT !.data = SpecFile(hookPending[k]),
                                      !.loading = FALSE]
    /\ hookPending' = Settled(k)
    /\ UNCHANGED hookSpecId

\* useSpecData.ts lines 35-38: an import is rejected
ImportRejected(k) ==
    /\ hookState' = [hookState EXCEPT
                        !.error = Str(<<"Failed to load spec data: ",
                                        "err.message">>),
                        !.loading = FALSE]
    /\ hookPending' = Settled(k)
    /\ UNCHANGED hookSpecId

HookNext ==
    /\ \/ ClearSpecId
       \/ \E id \in HookSpecIds : RequestSpecId(id)
       \/ \E k \in 1..Len(hookPending) : ImportFulfilled(k)
       \/ \E k \in 1..Len(hookPending) : ImportRejected(k)
    /\ UNCHANGED <<parserVars, readerVars, diffVars, dedupVars, analyzerVars,
                   uiVars>>

HookSpec == HookInit /\ [][HookNext]_vars

\* C28: once every import has settled and none has failed, data is the
\* file of the specId passed last, or null when null was passed last; an
\* import of an earlier specId that settles late does not replace it.
C28_LatestWins ==
    (/\ hookState.kind = "hook"
     /\ hookPending = <<>>
     /\ hookState.error = null) =>
        hookState.data = IF hookSpecId = null THEN null
                         ELSE SpecFile(hookSpecId.value)
====
